---- MODULE Spec2Model ----
(***************************************************************************)
(* Streaming voice-call pipeline of capstone_app.                          *)
(*                                                                         *)
(*   Spec        one server turn of the NDJSON streaming route             *)
(*               (POST -> ReadableStream.start): text generation, the      *)
(*               chunk correlator / flush scheduler, the realtime          *)
(*               synthesis callbacks and the wire events.                  *)
(*   SpecPlayer  StreamingAudioPlayer on its own: enqueue calls arriving   *)
(*               concurrently, stop(), the cancel signal.                  *)
(*   SpecClient  the client turn of CallInterface.handleHoldEnd: the       *)
(*               playbackQueue promise chain driving the player, and       *)
(*               stopPlayback.                                             *)
(*   SpecClientLive  the client turn with the clock running on and the     *)
(*               steps that need no user eventually taken.                 *)
(*   SpecConsumer  the read loop of handleHoldEnd: bytes to lines to       *)
(*               events, and the content of the expert message.            *)
(*   SpecRoute   the route as a whole for several requests: the checks     *)
(*               before the stream, the session history.                   *)
(*   SpecFlush   the server turn fed with whole sentences whose sizes lie  *)
(*               on both sides of the flush thresholds.                    *)
(*   SpecDebounce  the server turn with an armed debounce timer            *)
(*               eventually firing, whatever the generation does.          *)
(*   SpecSplit   the generation loop fed with every short delta, the       *)
(*               debounce timer firing at any point.                       *)
(*   SpecConversation  handleHoldEnd as a whole over several turns: the    *)
(*               messages of the store, the ways a turn fails.             *)
(*                                                                         *)
(* Strings are sequences of one-character strings.  Audio time is counted  *)
(* in ticks of 0.01 s.                                                     *)
(***************************************************************************)
EXTENDS Integers, Sequences, FiniteSets, TLC

VARIABLES
    \* ---- server turn (ReadableStream.start closure) ----
    pc,                \* position of the start() coroutine
    wire,              \* events accepted by the sink, in order
    sink,              \* "open" | "closed" (controller.close) | "cancelled" (client went away)
    fullResponse,
    buffer,
    chunkIndex,
    pendingChunk,
    flushTimeout,      \* TRUE when the cell holds a timer handle (is not null)
    timers,            \* number of debounce timers set and not yet fired or cleared
    ttsClosed,
    ttsFinal,
    ttsResolved,       \* ttsCompleted has been resolved
    pendingChunkTexts, \* FIFO awaiting-audio queue
    nextChunkIndex,
    streamingError,
    hasStreamedAudio,
    isFirstChunk,
    tts,               \* the adapter connection as the route drives it
    flushedChunks,     \* history: every {index, text} pushed / sent by flushPendingChunk
    llmParts,          \* history: non-empty parts consumed from the generation stream
    ttsErrors,         \* history: onError callbacks delivered
    notFoundEarly,     \* history: a 404 was reported before any audio
    flushAttempts,     \* history: calls of flushPendingChunk
    endSent,           \* history: ttsStream.end() was called
    errorLog,          \* history: the onError callbacks, each with hasStreamedAudio at the time
    closeThrew,        \* history: controller.close() threw in the finally block
    closeCalled,       \* history: ttsStream.close() was called
    \* ---- audio player (StreamingAudioPlayer) ----
    now,               \* AudioContext.currentTime, in ticks
    audioContext,      \* TRUE once getContext() created the context
    queueTime,
    activeSources,
    call,              \* state of each enqueue() call
    startAt,
    endAt,
    schedLog,          \* history: chunk ids in the order they were scheduled
    stopEpoch,         \* history: number of stop() calls so far
    callEpoch,         \* history: stopEpoch at the time a chunk was scheduled
    started,           \* history: chunks whose source began to sound
    signalAborted,     \* the cancel signal given to enqueue is aborted
    abortedInCall,     \* history: calls whose signal was aborted before they settled
    \* ---- client turn (handleHoldEnd) ----
    cpc,               \* position of the read loop
    arrived,           \* audio_chunk events dispatched so far
    arrivedAt,         \* history: tick at which each chunk was dispatched
    chainNext,         \* next playbackQueue link to run
    playbackAbortRef,  \* "turn" when it holds this turn's controller, "null" otherwise
    hasStartedSpeaking,
    stoppedDuring,     \* history: chunks that were sounding when stopPlayback ran
    startedAfterStop,  \* history: chunks that began to sound after such a stop
    status,            \* the call status shown: idle | listening | processing | speaking
    isHolding,         \* isHoldingRef.current
    clientStreamingError, \* handleHoldEnd's streamingError is set
    failedWith,        \* history: what the turn was reported as failed with
    callStopped,       \* history: handleStopCall ran
    \* ---- client read loop (handleHoldEnd, response body to events) ----
    rpc,               \* "idle" | "reading" | "finished"
    body,              \* the bytes of the response body
    bodyPos,           \* bytes handed out by reader.read() so far
    decoderPending,    \* bytes of an incomplete character kept by the TextDecoder
    lineBuffer,        \* handleHoldEnd's buffer
    expertMessageId,   \* 0 for null, else the number of the expert message
    fullExpertResponse,
    messages,          \* content of each expert message added, by number
    dispatched,        \* history: the payloads processLine switched on, in order
    sentLines,         \* history: the lines the body was made of
    deltasSinceOpen,   \* history: the deltas of the text_delta events since the last metadata
    completeTexts,     \* history: the texts of the complete events since the last metadata
    lateDelta,         \* history: a text_delta was dispatched after a complete
    \* ---- streaming route as a whole (POST), one entry per request ----
    reqPc,             \* position of each POST call
    reqSession,        \* the sessionId field of each request
    reqAudio,          \* the request has a file in its audio field
    response,          \* "none" | "400" | "500" | "stream"
    transcribed,       \* history: how transcribeAudio ended for the request
    reqWire,           \* event types written to the stream of each request
    synthesis,         \* createElevenLabsRealtimeStream was called for the request
    sinkCancelled,     \* the client of the request has gone away
    store,             \* the session store: one record per session id
    acceptedDuring,    \* history: requests in progress when a request was accepted
    \* ---- client turn as a whole (handleHoldEnd) and the conversation store ----
    hpc,               \* position of handleHoldEnd
    conversationHistory, \* the messages of the store, in order
    processingMessageId, \* 0 for null
    transcriptAdded,
    created,           \* message ids created so far (createMessageId)
    turns,             \* turns begun so far
    turnEvents,        \* text and error events dispatched in the turn
    atFailure          \* history: the conversation when the turn's catch block was entered

serverVars == <<pc, wire, sink, fullResponse, buffer, chunkIndex, pendingChunk,
                flushTimeout, timers, ttsClosed, ttsFinal, ttsResolved, pendingChunkTexts,
                nextChunkIndex, streamingError, hasStreamedAudio, isFirstChunk, tts,
                flushedChunks, llmParts, ttsErrors, notFoundEarly, flushAttempts,
                endSent, errorLog, closeThrew, closeCalled>>

playerVars == <<now, audioContext, queueTime, activeSources, call, startAt, endAt,
                schedLog, stopEpoch, callEpoch, started, signalAborted, abortedInCall>>

turnVars == <<status, isHolding, clientStreamingError, failedWith, callStopped>>

clientVars == <<cpc, arrived, arrivedAt, chainNext, playbackAbortRef,
                hasStartedSpeaking, stoppedDuring, startedAfterStop, turnVars>>

consumerVars == <<rpc, body, bodyPos, decoderPending, lineBuffer, expertMessageId,
                  fullExpertResponse, messages, dispatched, sentLines, deltasSinceOpen,
                  completeTexts, lateDelta>>

routeVars == <<reqPc, reqSession, reqAudio, response, transcribed, reqWire, synthesis,
               sinkCancelled, store, acceptedDuring>>

\* handleHoldEnd as a whole, with the conversation of the store.
convVars == <<hpc, conversationHistory, processingMessageId, transcriptAdded, created,
              turns, turnEvents, atFailure>>

vars == <<serverVars, playerVars, clientVars, consumerVars, routeVars, convVars>>

(***************************************************************************)
(* Bounds of the model.                                                    *)
(***************************************************************************)
MaxParts == 2      \* non-empty parts the generation stream yields in a turn
MaxAudio == 2      \* onAudio callbacks in a turn
MaxErrors == 2     \* onError callbacks in a turn
MaxChunks == 2     \* audio chunks handed to the player
MaxTime == 4       \* ticks of the audio clock
MaxDur == 2        \* longest decoded buffer, in ticks
MaxStops == 1      \* stop() / stopPlayback calls
MaxDelta == 2      \* longest delta fed to the segmenter, in characters
MaxFeeds == 2      \* deltas fed to the segmenter in a turn
MaxLines == 3      \* lines of a response body read by the client
MaxRequests == 2   \* POST requests made to the route
MaxRead == 3       \* bytes of a read that is not the rest of the body
MaxSentences == 4  \* sentences fed to the flush scheduler in a turn
MaxTurns == 2      \* turns of a conversation
MaxEvents == 2     \* text_delta, complete and error events of a turn

(***************************************************************************)
(* Program constants.                                                      *)
(***************************************************************************)
CHAR_THRESHOLD_START == 50
CHAR_THRESHOLD_STABLE == 150
WORD_THRESHOLD == 24
SafetyMargin == 1  \* the 0.01 s added to the start time, in ticks

(***************************************************************************)
(* Text helpers.                                                           *)
(***************************************************************************)
IsSpace(c) == c \in {" ", "\t", "\n", "\r"}

IsTerminator(c) == c \in {".", "!", "?"}

Min(S) == CHOOSE x \in S : \A y \in S : x <= y

Max(S) == 0 - Min({0 - x : x \in S})

\* Positions (1-based) of the characters of s that are not whitespace.
Inked(s) == {i \in 1..Len(s) : ~IsSpace(s[i])}

\* String.prototype.trim
Trim(s) == IF Inked(s) = {} THEN <<>> ELSE SubSeq(s, Min(Inked(s)), Max(Inked(s)))

\* buffer.slice(a, b) with 0-based, end-exclusive indices
Slice(s, a, b) == SubSeq(s, a + 1, b)

\* while (start < buffer.length && /\s/.test(buffer[start])) start += 1
SkipSpaces(s, start) ==
    LET rest == {j \in start..(Len(s) - 1) : ~IsSpace(s[j + 1])}
    IN IF rest = {} THEN IF start > Len(s) THEN start ELSE Len(s) ELSE Min(rest)

\* 0-based positions i >= from where the scan of extractChunks finds a
\* terminator followed by whitespace or by the end of the buffer.
Boundaries(buf, from) ==
    {i \in from..(Len(buf) - 1) :
        IsTerminator(buf[i + 1]) /\ (i + 1 >= Len(buf) \/ IsSpace(buf[i + 2]))}

\* The for loop of extractChunks, one step per boundary it stops at.
RECURSIVE ExtractLoop(_, _, _, _)
ExtractLoop(buf, from, start, ready) ==
    IF Boundaries(buf, from) = {}
    THEN [ready |-> ready, remainder |-> Slice(buf, start, Len(buf))]
    ELSE LET i == Min(Boundaries(buf, from))
             sentence == Trim(Slice(buf, start, i + 1))
             nstart == SkipSpaces(buf, i + 1)
         IN ExtractLoop(buf, nstart, nstart,
                        IF sentence # <<>> THEN Append(ready, sentence) ELSE ready)

\* A segmenter that returns the sentences but keeps them in the remainder.
extractChunksKeepingAll(buf) ==
    [ready |-> ExtractLoop(buf, 0, 0, <<>>).ready, remainder |-> buf]

extractChunks(buf) == ExtractLoop(buf, 0, 0, <<>>)

\* chunk.split(/\s+/).filter(Boolean).length: the number of word starts
WordCount(s) == Cardinality({i \in Inked(s) : i = 1 \/ IsSpace(s[i - 1])})

RECURSIVE Repeat(_, _)
Repeat(s, n) == IF n = 0 THEN <<>> ELSE s \o Repeat(s, n - 1)

\* A twelve-word, 59-character sentence: alone it reaches the start threshold,
\* two of them joined reach the word threshold.
LongSentence == Repeat(<<"a", "a", "a", "a", " ">>, 11) \o <<"a", "a", "a", ".">>

\* The content of one part of the generation stream ('' is skipped by the loop).
Fragments == { <<>>, <<"a">>, <<" ">>, <<".">>, LongSentence }


(***************************************************************************)
(* Wire events and the sink.                                               *)
(***************************************************************************)
Event(type, text, index) == [type |-> type, text |-> text, index |-> index]

\* controller.enqueue throws on a sink that is no longer open; enqueuePayload
\* swallows that error, so the payload is dropped.
enqueuePayload(w, s, payload) == IF s = "open" THEN Append(w, payload) ELSE w

(***************************************************************************)
(* Chunk correlator / flush scheduler.  The closure cells it works on are  *)
(* passed around as one record so that a run of appendToPending calls can  *)
(* be folded over the sentences of one extractChunks result.               *)
(***************************************************************************)
Correlator ==
    [pendingChunk |-> pendingChunk, nextChunkIndex |-> nextChunkIndex,
     pendingChunkTexts |-> pendingChunkTexts, isFirstChunk |-> isFirstChunk,
     flushTimeout |-> flushTimeout, timers |-> timers, flushedChunks |-> flushedChunks,
     flushAttempts |-> flushAttempts]

\* clearTimeout on the handle in the cell, if there is one, and the cell
\* set to null.  Between two tasks the timer of the handle is still armed.
clearFlushTimeout(c) ==
    IF c.flushTimeout THEN [c EXCEPT !.timers = @ - 1, !.flushTimeout = FALSE] ELSE c

\* setTimeout(() => flushPendingChunk(), CHUNK_DELAY_MS), the handle stored
\* in the cell.
setFlushTimeout(c) == [c EXCEPT !.timers = @ + 1, !.flushTimeout = TRUE]

\* A flush that takes a sequence number before looking at the chunk.
flushPendingChunkEager(c) ==
    LET chunkToSend == Trim(c.pendingChunk)
        n == c.nextChunkIndex + 1
    IN IF chunkToSend # <<>>
       THEN [c EXCEPT !.nextChunkIndex = n,
                      !.pendingChunkTexts = Append(@, [index |-> n, text |-> chunkToSend]),
                      !.flushedChunks = Append(@, [index |-> n, text |-> chunkToSend]),
                      !.pendingChunk = <<>>,
                      !.isFirstChunk = FALSE,
                      !.flushTimeout = FALSE,
                      !.timers = clearFlushTimeout(c).timers,
                      !.flushAttempts = @ + 1]
       ELSE [c EXCEPT !.nextChunkIndex = n, !.flushTimeout = FALSE,
                      !.timers = clearFlushTimeout(c).timers,
                      !.flushAttempts = @ + 1]

\* A flush that leaves the timer alone.
flushPendingChunkKeepingTimer(c) ==
    LET chunkToSend == Trim(c.pendingChunk)
        n == c.nextChunkIndex + 1
    IN IF chunkToSend # <<>>
       THEN [c EXCEPT !.nextChunkIndex = n,
                      !.pendingChunkTexts = Append(@, [index |-> n, text |-> chunkToSend]),
                      !.flushedChunks = Append(@, [index |-> n, text |-> chunkToSend]),
                      !.pendingChunk = <<>>,
                      !.isFirstChunk = FALSE,
                      !.flushAttempts = @ + 1]
       ELSE [c EXCEPT !.flushAttempts = @ + 1]

flushPendingChunk(c) ==
    LET chunkToSend == Trim(c.pendingChunk)
        n == c.nextChunkIndex + 1
    IN IF chunkToSend # <<>>
       THEN [c EXCEPT !.nextChunkIndex = n,
                      !.pendingChunkTexts = Append(@, [index |-> n, text |-> chunkToSend]),
                      !.flushedChunks = Append(@, [index |-> n, text |-> chunkToSend]),
                      !.pendingChunk = <<>>,
                      !.isFirstChunk = FALSE,
                      !.flushTimeout = FALSE,
                      !.timers = clearFlushTimeout(c).timers,
                      !.flushAttempts = @ + 1]
       ELSE [c EXCEPT !.flushTimeout = FALSE,
                      !.timers = clearFlushTimeout(c).timers,
                      !.flushAttempts = @ + 1]

\* A policy that applies the stable threshold from the first chunk on.
shouldFlushStable(chunk, first) ==
    IF Len(chunk) >= CHAR_THRESHOLD_STABLE THEN TRUE
    ELSE WordCount(chunk) >= WORD_THRESHOLD

shouldFlush(chunk, first) ==
    LET threshold == IF first THEN CHAR_THRESHOLD_START ELSE CHAR_THRESHOLD_STABLE
    IN IF Len(chunk) >= threshold THEN TRUE ELSE WordCount(chunk) >= WORD_THRESHOLD

\* An appendToPending that arms a timer without cancelling the one armed.
appendToPendingStacking(c, sentence) ==
    LET joined == IF c.pendingChunk # <<>>
                  THEN Trim(c.pendingChunk) \o <<" ">> \o Trim(sentence)
                  ELSE Trim(sentence)
        c1 == [c EXCEPT !.pendingChunk = joined]
    IN IF shouldFlush(joined, c.isFirstChunk)
       THEN flushPendingChunk(c1)
       ELSE setFlushTimeout(c1)

\* An appendToPending that joins the sentences without the space between.
appendToPendingUnspaced(c, sentence) ==
    LET joined == Trim(c.pendingChunk) \o Trim(sentence)
        c1 == [c EXCEPT !.pendingChunk = joined]
    IN IF shouldFlush(joined, c.isFirstChunk)
       THEN flushPendingChunk(c1)
       ELSE setFlushTimeout(clearFlushTimeout(c1))

appendToPending(c, sentence) ==
    LET joined == IF c.pendingChunk # <<>>
                  THEN Trim(c.pendingChunk) \o <<" ">> \o Trim(sentence)
                  ELSE Trim(sentence)
        c1 == [c EXCEPT !.pendingChunk = joined]
    IN IF shouldFlush(joined, c.isFirstChunk)
       THEN flushPendingChunk(c1)
       ELSE setFlushTimeout(clearFlushTimeout(c1))

\* ready.forEach(sentence => appendToPending(sentence))
RECURSIVE AppendAll(_, _)
AppendAll(c, ready) ==
    IF ready = <<>> THEN c ELSE AppendAll(appendToPending(c, Head(ready)), Tail(ready))

SetCorrelator(c) ==
    /\ pendingChunk' = c.pendingChunk
    /\ nextChunkIndex' = c.nextChunkIndex
    /\ pendingChunkTexts' = c.pendingChunkTexts
    /\ isFirstChunk' = c.isFirstChunk
    /\ flushTimeout' = c.flushTimeout
    /\ timers' = c.timers
    /\ flushedChunks' = c.flushedChunks
    /\ flushAttempts' = c.flushAttempts

correlatorVars == <<pendingChunk, nextChunkIndex, pendingChunkTexts, isFirstChunk,
                    flushTimeout, timers, flushedChunks, flushAttempts>>

(***************************************************************************)
(* The realtime synthesis adapter (lib/elevenlabs-stream).  The route      *)
(* only sees its handle and its four callbacks; what the transport may do  *)
(* and when is taken from its contract: audio only for text that was       *)
(* sent, onFinal once after end(), onClose once, nothing but onClose       *)
(* after a transport error.                                                *)
(*   tts: "connecting" | "failed" | "open" | "ended" (end() sent) |        *)
(*        "errored" | "closing" (close() called) | "closed" (onClose)      *)
(***************************************************************************)
ErrorKinds == {"input_timeout_exceeded", "not_found"}

NoError == "none"

\* Callbacks are tasks of the event loop: they run only while start() is
\* suspended on something that is not yet settled.
ServerSuspended ==
    \/ pc \in {"llm_start", "gen", "finished"}
    \/ pc = "await_tts" /\ ~ttsResolved

AdapterMayDeliverAudio ==
    /\ tts \in {"open", "ended", "closing"}
    /\ ~ttsFinal
    /\ Len(flushedChunks) > 0

AdapterMayFinish == tts = "ended" /\ ~ttsFinal

AdapterMayFail == tts \in {"open", "ended", "errored"} /\ ~ttsFinal

AdapterMayClose == tts \in {"open", "ended", "errored", "closing"}

\* ttsStream?.end()
TtsEnd(t) == IF t = "open" THEN "ended" ELSE t

\* ttsStream?.close()
TtsClose(t) == IF t \in {"open", "ended"} THEN "closing" ELSE t

(***************************************************************************)
(* Init: the closure cells of start() as declared, the player as           *)
(* constructed, the client turn at the point where the response stream     *)
(* is about to be read.                                                    *)
(***************************************************************************)
ChunkIds == 1..MaxChunks

ServerInit ==
    /\ pc = "open"
    /\ wire = <<>>
    /\ sink = "open"
    /\ fullResponse = <<>>
    /\ buffer = <<>>
    /\ chunkIndex = 0
    /\ pendingChunk = <<>>
    /\ flushTimeout = FALSE
    /\ timers = 0
    /\ ttsClosed = FALSE
    /\ ttsFinal = FALSE
    /\ ttsResolved = FALSE
    /\ pendingChunkTexts = <<>>
    /\ nextChunkIndex = 0
    /\ streamingError = NoError
    /\ hasStreamedAudio = FALSE
    /\ isFirstChunk = TRUE
    /\ tts = "connecting"
    /\ flushedChunks = <<>>
    /\ llmParts = 0
    /\ ttsErrors = 0
    /\ notFoundEarly = FALSE
    /\ flushAttempts = 0
    /\ endSent = FALSE
    /\ errorLog = <<>>
    /\ closeThrew = FALSE
    /\ closeCalled = FALSE

PlayerInit ==
    /\ now = 0
    /\ audioContext = FALSE
    /\ queueTime = 0
    /\ activeSources = {}
    /\ call = [k \in ChunkIds |-> "none"]
    /\ startAt = [k \in ChunkIds |-> -1]
    /\ endAt = [k \in ChunkIds |-> -1]
    /\ schedLog = <<>>
    /\ stopEpoch = 0
    /\ callEpoch = [k \in ChunkIds |-> 0]
    /\ started = {}
    /\ signalAborted = FALSE
    /\ abortedInCall = {}

ClientInit ==
    /\ cpc = "reading"
    /\ arrived = 0
    /\ arrivedAt = [k \in ChunkIds |-> -1]
    /\ chainNext = 1
    /\ playbackAbortRef = "turn"
    /\ hasStartedSpeaking = FALSE
    /\ stoppedDuring = {}
    /\ startedAfterStop = {}
    /\ status = "processing"
    /\ isHolding = FALSE
    /\ clientStreamingError = FALSE
    /\ failedWith = "none"
    /\ callStopped = FALSE

\* The requests of the model and the session ids they may name.
Requests == 1..MaxRequests

Sessions == {<<"s", "1">>, <<"s", "2">>}

\* A form field: absent (or not a string), or a string.
NoField == [isString |-> FALSE, value |-> <<>>]

Field(v) == [isString |-> TRUE, value |-> v]

\* A session as the store keeps it.  (lib/sessions is not part of the
\* sources; the store is the one of the interface: get, create,
\* appendTurn, setContext.)
NoSession == [exists |-> FALSE, conversationHistory |-> <<>>, expert |-> FALSE]

NewSession == [exists |-> TRUE, conversationHistory |-> <<>>, expert |-> FALSE]

\* Before the response of a turn arrives nothing was read; the locals of
\* handleHoldEnd have their initial values.
ConsumerInit ==
    /\ rpc = "idle"
    /\ body = <<>>
    /\ bodyPos = 0
    /\ decoderPending = <<>>
    /\ lineBuffer = <<>>
    /\ expertMessageId = 0
    /\ fullExpertResponse = <<>>
    /\ messages = <<>>
    /\ dispatched = <<>>
    /\ sentLines = <<>>
    /\ deltasSinceOpen = <<>>
    /\ completeTexts = <<>>
    /\ lateDelta = FALSE

\* No request was made yet.  Session s1 was created by the start of the
\* call; session s2 is not in the store (the process was restarted).
RouteInit ==
    /\ reqPc = [r \in Requests |-> "idle"]
    /\ reqSession = [r \in Requests |-> NoField]
    /\ reqAudio = [r \in Requests |-> FALSE]
    /\ response = [r \in Requests |-> "none"]
    /\ transcribed = [r \in Requests |-> "none"]
    /\ reqWire = [r \in Requests |-> <<>>]
    /\ synthesis = [r \in Requests |-> FALSE]
    /\ sinkCancelled = [r \in Requests |-> FALSE]
    /\ store = [s \in Sessions |-> IF s = <<"s", "1">> THEN NewSession ELSE NoSession]
    /\ acceptedDuring = [r \in Requests |-> {}]

\* A message of the store; the fixed texts the interface writes.
Message(id, role, content) == [id |-> id, role |-> role, content |-> content]

RecordingText == <<"Recording... release to send your question.">>

InterruptedText == <<"Greeting interrupted. Recording your question...">>

ProcessingText == <<"Processing your question...">>

NothingCaughtText == <<"I didn't catch anything there.">>

FailedText == <<"Processing failed. Please try again.">>

FallbackText == <<"There was an issue generating a response. Please try again.">>

\* The first turn at the point of ClientInit: the button was pressed and
\* released, the processing message was added and the request was sent.
ConversationInit ==
    /\ hpc = "fetching"
    /\ conversationHistory = << Message(1, "system", RecordingText),
                                Message(2, "system", ProcessingText) >>
    /\ processingMessageId = 2
    /\ transcriptAdded = FALSE
    /\ created = 2
    /\ turns = 1
    /\ turnEvents = 0
    /\ atFailure = <<>>

Init ==
    /\ ServerInit /\ PlayerInit /\ ClientInit /\ ConsumerInit /\ RouteInit
    /\ ConversationInit

(***************************************************************************)
(* Server turn: ReadableStream.start.                                      *)
(***************************************************************************)
\* The finally block.  controller.close() throws on a sink the client has
\* cancelled, which skips the clearFlushTimeout() after it.
Finally(w) ==
    /\ tts' = IF ~ttsFinal THEN TtsClose(tts) ELSE tts
    /\ wire' = enqueuePayload(w, sink, Event("done", <<>>, 0))
    /\ sink' = IF sink = "open" THEN "closed" ELSE sink
    /\ flushTimeout' = IF sink = "open" THEN FALSE ELSE flushTimeout
    /\ timers' = IF sink = "open" THEN clearFlushTimeout(Correlator).timers ELSE timers
    /\ closeThrew' = (sink # "open")
    /\ closeCalled' = ~ttsFinal
    /\ pc' = "finished"

\* Both writes of a turn that emits complete and then reports the failure.
CompleteThenCatch(w, message) ==
    Finally(enqueuePayload(enqueuePayload(w, sink,
                                          Event("complete", Trim(fullResponse), 0)),
                           sink, Event("error", message, 0)))

\* The catch block followed by the finally block.
CatchAndFinally(w, message) ==
    Finally(enqueuePayload(w, sink, Event("error", message, 0)))

\* createElevenLabsRealtimeStream resolves; start() goes on, without
\* suspending, to write the metadata event and call streamExpertResponse.
OpenResolves ==
    /\ pc = "open"
    /\ tts' = "open"
    /\ wire' = enqueuePayload(wire, sink, Event("metadata", <<>>, 0))
    /\ pc' = "llm_start"
    /\ UNCHANGED <<sink, fullResponse, buffer, chunkIndex, ttsClosed, ttsFinal,
                   ttsResolved, streamingError, hasStreamedAudio, llmParts, ttsErrors,
                   notFoundEarly, errorLog, closeThrew, closeCalled, endSent, correlatorVars, playerVars, clientVars, consumerVars, routeVars, convVars>>

\* createElevenLabsRealtimeStream rejects (voice or endpoint not found).
\* The await is outside the try: start() rejects and the stream errors.
OpenRejects ==
    /\ pc = "open"
    /\ tts' = "failed"
    /\ pc' = "rejected"
    /\ notFoundEarly' = TRUE
    /\ UNCHANGED <<endSent, errorLog, closeThrew, closeCalled>>
    /\ UNCHANGED <<wire, sink, fullResponse, buffer, chunkIndex, ttsClosed, ttsFinal,
                   ttsResolved, streamingError, hasStreamedAudio, llmParts, ttsErrors,
                   correlatorVars, playerVars, clientVars, consumerVars, routeVars, convVars>>

LlmStreamOpens ==
    /\ pc = "llm_start"
    /\ pc' = "gen"
    /\ UNCHANGED <<wire, sink, fullResponse, buffer, chunkIndex, ttsClosed, ttsFinal,
                   ttsResolved, streamingError, hasStreamedAudio, tts, llmParts,
                   ttsErrors, notFoundEarly, errorLog, closeThrew, closeCalled, endSent, correlatorVars, playerVars, clientVars, consumerVars, routeVars, convVars>>

\* streamExpertResponse rejects, or the stream throws between two parts.
GenerationFails ==
    /\ pc \in {"llm_start", "gen"}
    /\ CatchAndFinally(wire, <<"generation failed">>)
    /\ UNCHANGED <<fullResponse, buffer, chunkIndex, ttsClosed, ttsFinal, ttsResolved,
                   streamingError, hasStreamedAudio, llmParts, ttsErrors, notFoundEarly, errorLog, endSent,
                   pendingChunk, nextChunkIndex, pendingChunkTexts, isFirstChunk,
                   flushedChunks, flushAttempts, playerVars, clientVars, consumerVars, routeVars, convVars>>

\* A loop body that forgets the remainder extractChunks returned.
LoopBodyDroppingRemainder(delta) ==
    LET x == extractChunks(buffer \o delta)
    IN /\ wire' = enqueuePayload(wire, sink, Event("text_delta", delta, 0))
       /\ fullResponse' = fullResponse \o delta
       /\ SetCorrelator(AppendAll(Correlator, x.ready))
       /\ buffer' = <<>>

\* The body of the for-await loop for a part whose delta is not empty.
LoopBody(delta) ==
    LET x == extractChunks(buffer \o delta)
    IN /\ wire' = enqueuePayload(wire, sink, Event("text_delta", delta, 0))
       /\ fullResponse' = fullResponse \o delta
       /\ SetCorrelator(AppendAll(Correlator, x.ready))
       /\ buffer' = x.remainder

\* One iteration of the for-await loop.
GenPart(delta) ==
    /\ pc = "gen"
    /\ IF delta = <<>>
       THEN UNCHANGED <<wire, fullResponse, buffer, correlatorVars, llmParts>>
       ELSE /\ llmParts < MaxParts
            /\ llmParts' = llmParts + 1
            /\ LoopBody(delta)
    /\ UNCHANGED <<pc, sink, chunkIndex, ttsClosed, ttsFinal, ttsResolved,
                   streamingError, hasStreamedAudio, tts, ttsErrors, notFoundEarly, errorLog, closeThrew, closeCalled, endSent,
                   playerVars, clientVars, consumerVars, routeVars, convVars>>

\* An end of generation that flushes the pending chunk but leaves the
\* unterminated rest of the buffer behind.
GenEndsDroppingTail ==
    /\ pc = "gen"
    /\ SetCorrelator(flushPendingChunk(Correlator))
    /\ buffer' = buffer
    /\ tts' = TtsEnd(tts)
    /\ endSent' = TRUE
    /\ pc' = "await_tts"
    /\ UNCHANGED <<wire, sink, fullResponse, chunkIndex, ttsClosed, ttsFinal,
                   ttsResolved, streamingError, hasStreamedAudio, llmParts, ttsErrors,
                   notFoundEarly, errorLog, closeThrew, closeCalled, playerVars, clientVars, consumerVars, routeVars, convVars>>

\* The generation stream ends: the rest of the buffer is appended, the
\* pending chunk is flushed, end() is sent and start() awaits ttsCompleted.
GenEnds ==
    /\ pc = "gen"
    /\ LET c1 == IF Trim(buffer) # <<>> THEN appendToPending(Correlator, buffer)
                 ELSE Correlator
       IN SetCorrelator(flushPendingChunk(c1))
    /\ buffer' = IF Trim(buffer) # <<>> THEN <<>> ELSE buffer
    /\ tts' = TtsEnd(tts)
    /\ endSent' = TRUE
    /\ pc' = "await_tts"
    /\ UNCHANGED <<wire, sink, fullResponse, chunkIndex, ttsClosed, ttsFinal,
                   ttsResolved, streamingError, hasStreamedAudio, llmParts, ttsErrors,
                   notFoundEarly, errorLog, closeThrew, closeCalled, playerVars, clientVars, consumerVars, routeVars, convVars>>

\* A complete event that carries the response as accumulated.
CompleteTextRaw(full) == full

\* fullResponse.trim(), the text of the complete event.
CompleteText(full) == Trim(full)

\* A turn that does not wait for the adapter.
AwaitNothing == TRUE

\* await ttsCompleted
AwaitTtsCompleted == ttsResolved

\* A turn that does not look at streamingError.
StreamingErrorDropped == FALSE

\* if (streamingError) throw new Error(streamingError)
StreamingErrorThrown == streamingError # NoError

\* ttsCompleted is resolved: the streamingError check, the complete event
\* or the catch block, then the finally block.
TtsCompleted ==
    /\ pc = "await_tts"
    /\ AwaitTtsCompleted
    /\ IF StreamingErrorThrown
       THEN CatchAndFinally(wire, <<streamingError>>)
       ELSE Finally(enqueuePayload(wire, sink,
                                   Event("complete", CompleteText(fullResponse), 0)))
    /\ UNCHANGED <<fullResponse, buffer, chunkIndex, ttsClosed, ttsFinal, ttsResolved,
                   streamingError, hasStreamedAudio, llmParts, ttsErrors, notFoundEarly, errorLog, endSent,
                   pendingChunk, nextChunkIndex, pendingChunkTexts, isFirstChunk,
                   flushedChunks, flushAttempts, playerVars, clientVars, consumerVars, routeVars, convVars>>

\* The debounce timer fires: the timer is spent, and its callback runs
\* flushPendingChunk, whose clearTimeout on the spent handle does nothing.
FlushTimerFires ==
    /\ flushTimeout
    /\ timers > 0
    /\ ServerSuspended
    /\ SetCorrelator(flushPendingChunk([Correlator EXCEPT !.timers = @ - 1,
                                                          !.flushTimeout = FALSE]))
    /\ UNCHANGED <<pc, wire, sink, fullResponse, buffer, chunkIndex, ttsClosed,
                   ttsFinal, ttsResolved, streamingError, hasStreamedAudio, tts,
                   llmParts, ttsErrors, notFoundEarly, errorLog, closeThrew, closeCalled, endSent, playerVars, clientVars, consumerVars, routeVars, convVars>>

\* The client goes away: the response body is cancelled.
ClientDisconnects ==
    /\ sink = "open"
    /\ pc \in {"llm_start", "gen", "await_tts"}
    /\ ServerSuspended
    /\ sink' = "cancelled"
    /\ UNCHANGED <<pc, wire, fullResponse, buffer, chunkIndex, ttsClosed, ttsFinal,
                   ttsResolved, streamingError, hasStreamedAudio, tts, llmParts,
                   ttsErrors, notFoundEarly, errorLog, closeThrew, closeCalled, endSent, correlatorVars, playerVars, clientVars, consumerVars, routeVars, convVars>>


(***************************************************************************)
(* Adapter callbacks, as passed to createElevenLabsRealtimeStream.         *)
(***************************************************************************)
onAudio ==
    /\ ServerSuspended
    /\ AdapterMayDeliverAudio
    /\ chunkIndex < MaxAudio
    /\ chunkIndex' = chunkIndex + 1
    /\ LET chunkText == IF pendingChunkTexts # <<>> THEN Head(pendingChunkTexts).text
                        ELSE <<>>
       IN wire' = enqueuePayload(wire, sink,
                                 Event("audio_chunk", chunkText, chunkIndex + 1))
    /\ pendingChunkTexts' = IF pendingChunkTexts # <<>> THEN Tail(pendingChunkTexts)
                            ELSE pendingChunkTexts
    /\ hasStreamedAudio' = TRUE
    /\ UNCHANGED <<pc, sink, fullResponse, buffer, ttsClosed, ttsFinal, ttsResolved,
                   streamingError, tts, llmParts, ttsErrors, notFoundEarly, errorLog, closeThrew, closeCalled, endSent,
                   pendingChunk, nextChunkIndex, isFirstChunk, flushTimeout, timers,
                   flushedChunks, flushAttempts, playerVars, clientVars, consumerVars, routeVars, convVars>>

onFinal ==
    /\ ServerSuspended
    /\ AdapterMayFinish
    /\ ttsFinal' = TRUE
    /\ ttsResolved' = (ttsResolved \/ ~ttsClosed)
    /\ UNCHANGED <<pc, wire, sink, fullResponse, buffer, chunkIndex, ttsClosed,
                   streamingError, hasStreamedAudio, tts, llmParts, ttsErrors,
                   notFoundEarly, errorLog, closeThrew, closeCalled, endSent, correlatorVars, playerVars, clientVars, consumerVars, routeVars, convVars>>

\* A handler for which every input timeout is benign.
AnyTimeoutBenign(kind, streamed) == kind = "input_timeout_exceeded"

\* error.message?.includes('input_timeout_exceeded') && hasStreamedAudio
BenignTimeout(kind, streamed) == kind = "input_timeout_exceeded" /\ streamed

onError(kind) ==
    /\ ServerSuspended
    /\ AdapterMayFail
    /\ ttsErrors < MaxErrors
    /\ ttsErrors' = ttsErrors + 1
    /\ tts' = "errored"
    /\ streamingError' = IF BenignTimeout(kind, hasStreamedAudio)
                         THEN streamingError ELSE kind
    /\ notFoundEarly' = (notFoundEarly \/ (kind = "not_found" /\ ~hasStreamedAudio))
    /\ errorLog' = Append(errorLog, [kind |-> kind, afterAudio |-> hasStreamedAudio])
    /\ UNCHANGED <<endSent, closeThrew, closeCalled>>
    /\ UNCHANGED <<pc, wire, sink, fullResponse, buffer, chunkIndex, ttsClosed,
                   ttsFinal, ttsResolved, hasStreamedAudio, llmParts, correlatorVars,
                   playerVars, clientVars, consumerVars, routeVars, convVars>>

onClose ==
    /\ ServerSuspended
    /\ AdapterMayClose
    /\ tts' = "closed"
    /\ ttsClosed' = TRUE
    /\ ttsResolved' = TRUE
    /\ UNCHANGED <<pc, wire, sink, fullResponse, buffer, chunkIndex, ttsFinal,
                   streamingError, hasStreamedAudio, llmParts, ttsErrors,
                   notFoundEarly, errorLog, closeThrew, closeCalled, endSent, correlatorVars, playerVars, clientVars, consumerVars, routeVars, convVars>>

Next ==
    \/ OpenResolves
    \/ OpenRejects
    \/ LlmStreamOpens
    \/ GenerationFails
    \/ \E delta \in Fragments : GenPart(delta)
    \/ GenEnds
    \/ TtsCompleted
    \/ FlushTimerFires
    \/ ClientDisconnects
    \/ onAudio
    \/ onFinal
    \/ \E kind \in ErrorKinds : onError(kind)
    \/ onClose

Spec == Init /\ [][Next]_vars


(***************************************************************************)
(* Properties of the server turn.                                          *)
(***************************************************************************)
IndexesOf(type) == {i \in 1..Len(wire) : wire[i].type = type}

Count(type) == Cardinality(IndexesOf(type))

\* The deltas of the text_delta events of w, joined in wire order.
RECURSIVE DeltaConcat(_)
DeltaConcat(w) ==
    IF w = <<>> THEN <<>>
    ELSE (IF Head(w).type = "text_delta" THEN Head(w).text ELSE <<>>)
         \o DeltaConcat(Tail(w))

\* start() has run to its end, by returning or by rejecting.
TurnOver == pc \in {"finished", "rejected"}

\* C1: every turn whose response stream was started emits done exactly
\* once and done is the last event on the wire, on the success path and on
\* every error path, the failure to open the synthesis connection included.
C1_DoneOnceAndLast ==
    /\ Count("done") <= 1
    /\ \A i \in IndexesOf("done") : i = Len(wire)
    /\ (TurnOver /\ sink # "cancelled") => Count("done") = 1

C3_AudioAtMostFlushes == Count("audio_chunk") <= Len(flushedChunks)

\* C4: the sequence numbers of the flushed chunks are 1, 2, 3, ... in flush
\* order, and a flush attempt on an empty pending chunk takes no sequence
\* number and sends nothing: the numbers taken are the chunks sent, and no
\* chunk sent is empty or padded with whitespace.
C4_SequenceNumbers ==
    /\ \A i \in 1..Len(flushedChunks) : flushedChunks[i].index = i
    /\ nextChunkIndex = Len(flushedChunks)
    /\ \A i \in 1..Len(flushedChunks) :
          LET t == flushedChunks[i].text
          IN t # <<>> /\ ~IsSpace(t[1]) /\ ~IsSpace(t[Len(t)])
    /\ Len(flushedChunks) <= flushAttempts

C4_Witness ==
    /\ Len(flushedChunks) >= 2
    /\ flushAttempts > Len(flushedChunks)

\* C5: complete is emitted only after generation is exhausted and every
\* text_delta was emitted, the final pending chunk was flushed, end() was
\* sent and the adapter signalled final or close; no text_delta follows it.
C5_CompleteAfterAllWork ==
    \A i \in IndexesOf("complete") :
        /\ endSent
        /\ Trim(buffer) = <<>>
        /\ Trim(pendingChunk) = <<>>
        /\ ttsFinal \/ ttsClosed
        /\ \A j \in IndexesOf("text_delta") : j < i
        /\ DeltaConcat(SubSeq(wire, 1, i)) = fullResponse

C5_Witness ==
    /\ Count("complete") = 1
    /\ Count("text_delta") >= 2
    /\ Len(flushedChunks) >= 1
    /\ ttsFinal

\* C10: a 404 reported by the adapter before any audio, at open or through
\* onError, gives a wire stream with no audio_chunk event and exactly one
\* error event, followed by done.
C10_NotFoundGivesErrorThenDone ==
    (TurnOver /\ notFoundEarly /\ sink # "cancelled") =>
        /\ Count("audio_chunk") = 0
        /\ Count("error") = 1
        /\ Len(wire) >= 2
        /\ wire[Len(wire) - 1].type = "error"
        /\ wire[Len(wire)].type = "done"

\* The same for the turns whose adapter connection did open.
Aux_NotFoundViaOnError == (pc = "finished") => C10_NotFoundGivesErrorThenDone

Aux_DoneWhenFinished ==
    /\ Count("done") <= 1
    /\ \A i \in IndexesOf("done") : i = Len(wire)
    /\ (pc = "finished" /\ sink # "cancelled") => Count("done") = 1


(***************************************************************************)
(* StreamingAudioPlayer.  A call of enqueue is named by the chunk it       *)
(* carries; call[k] is                                                     *)
(*   "none"       not called yet                                           *)
(*   "skipped"    the playbackQueue link returned without calling enqueue  *)
(*   "decoding"   suspended in await this.decode(...)                      *)
(*   "scheduled"  source started, promise pending until ended or abort     *)
(*   "stopped"    source stopped by stop(), its ended event is due         *)
(*   "resolved" / "rejected"                                               *)
(***************************************************************************)
Durations == 1..MaxDur

Settled == {"skipped", "resolved"}

Max2(a, b) == IF a >= b THEN a ELSE b

\* A start time taken from the clock alone.
StartTimeFromClock(cursor, clock) == clock + SafetyMargin

\* const startAt = Math.max(this.queueTime, now) + 0.01
StartTime(cursor, clock) == Max2(cursor, clock) + SafetyMargin

\* The source of chunk k is sounding.
Sounding(k) == k \in activeSources /\ k \in started /\ now < endAt[k]

\* enqueue up to its first suspension: the aborted check, getContext()
\* (which creates the context and sets queueTime to its clock), decode().
EnqueueCall(k) ==
    IF signalAborted
    THEN /\ call' = [call EXCEPT ![k] = "resolved"]
         /\ abortedInCall' = abortedInCall \cup {k}
         /\ UNCHANGED <<audioContext, queueTime>>
    ELSE /\ call' = [call EXCEPT ![k] = "decoding"]
         /\ audioContext' = TRUE
         /\ queueTime' = IF audioContext THEN queueTime ELSE now
         /\ UNCHANGED abortedInCall

\* A link that does not wait for the link before it.
LinkReadyUnchained(k) == k = chainNext /\ k <= arrived

\* playbackQueue = playbackQueue.then(...): link k runs when link k - 1,
\* and with it the enqueue call it awaited, has fulfilled.
LinkReady(k) ==
    /\ k = chainNext
    /\ k <= arrived
    /\ IF k = 1 THEN TRUE ELSE call[k - 1] \in Settled

\* A link that is ready runs as a microtask, before any other event is
\* handled.
LinkDue == \E k \in ChunkIds : LinkReady(k)

\* decodeAudioData succeeds with a buffer of duration dur: the second
\* aborted check, then the scheduling block.
DecodeResolves(k, dur) ==
    /\ ~LinkDue
    /\ call[k] = "decoding"
    /\ IF signalAborted
       THEN /\ call' = [call EXCEPT ![k] = "resolved"]
            /\ UNCHANGED <<queueTime, activeSources, startAt, endAt, schedLog, callEpoch>>
       ELSE /\ call' = [call EXCEPT ![k] = "scheduled"]
            /\ startAt' = [startAt EXCEPT ![k] = StartTime(queueTime, now)]
            /\ endAt' = [endAt EXCEPT ![k] = StartTime(queueTime, now) + dur]
            /\ queueTime' = StartTime(queueTime, now) + dur
            /\ activeSources' = activeSources \cup {k}
            /\ schedLog' = Append(schedLog, k)
            /\ callEpoch' = [callEpoch EXCEPT ![k] = stopEpoch]
    /\ UNCHANGED <<now, audioContext, stopEpoch, started, signalAborted, abortedInCall,
                   serverVars, consumerVars, routeVars, convVars, clientVars>>

\* decodeAudioData fails: decode() rejects and so does enqueue, whatever
\* the state of the signal.
DecodeRejects(k) ==
    /\ ~LinkDue
    /\ call[k] = "decoding"
    /\ call' = [call EXCEPT ![k] = "rejected"]
    /\ UNCHANGED <<now, audioContext, queueTime, activeSources, startAt, endAt, schedLog,
                   stopEpoch, callEpoch, started, signalAborted, abortedInCall,
                   serverVars, consumerVars, routeVars, convVars, clientVars>>

\* The audio clock reaches the start time of a scheduled source.
SourceStarts(k) ==
    /\ ~LinkDue
    /\ k \in activeSources
    /\ k \notin started
    /\ now >= startAt[k]
    /\ started' = started \cup {k}
    /\ startedAfterStop' = IF stoppedDuring # {} THEN startedAfterStop \cup {k}
                           ELSE startedAfterStop
    /\ UNCHANGED <<now, audioContext, queueTime, activeSources, call, startAt, endAt,
                   schedLog, stopEpoch, callEpoch, signalAborted, abortedInCall,
                   serverVars, consumerVars, routeVars, convVars, cpc, arrived, arrivedAt, chainNext, playbackAbortRef,
                   hasStartedSpeaking, stoppedDuring, turnVars>>

\* source.onended after the buffer played to its end: cleanup() resolves.
SourceEnds(k) ==
    /\ ~LinkDue
    /\ k \in activeSources
    /\ k \in started
    /\ now >= endAt[k]
    /\ activeSources' = activeSources \ {k}
    /\ call' = [call EXCEPT ![k] = "resolved"]
    /\ UNCHANGED <<now, audioContext, queueTime, startAt, endAt, schedLog, stopEpoch,
                   callEpoch, started, signalAborted, abortedInCall, serverVars, consumerVars, routeVars, convVars,
                   clientVars>>

\* source.onended after stop() stopped the source: cleanup() resolves.
StoppedSourceEnds(k) ==
    /\ ~LinkDue
    /\ call[k] = "stopped"
    /\ call' = [call EXCEPT ![k] = "resolved"]
    /\ UNCHANGED <<now, audioContext, queueTime, activeSources, startAt, endAt, schedLog,
                   stopEpoch, callEpoch, started, signalAborted, abortedInCall,
                   serverVars, consumerVars, routeVars, convVars, clientVars>>

\* The abort event of the signal: handleAbort of every scheduled source
\* stops it and resolves its promise.  (Sets call, activeSources,
\* signalAborted, abortedInCall.)
AbortSignal(c, act) ==
    [call |-> [k \in ChunkIds |-> IF c[k] = "scheduled" THEN "resolved" ELSE c[k]],
     activeSources |-> act \ {k \in ChunkIds : c[k] = "scheduled"},
     abortedInCall |-> abortedInCall \cup {k \in ChunkIds : c[k] \in {"decoding", "scheduled"}}]

\* StreamingAudioPlayer.stop(): the cursor is reset to the clock, every
\* active source is stopped and forgotten.
PlayerStop(c, act) ==
    [call |-> [k \in ChunkIds |-> IF k \in act /\ c[k] = "scheduled" THEN "stopped" ELSE c[k]],
     activeSources |-> {},
     queueTime |-> IF audioContext THEN now ELSE 0]

\* Events that are due are handled before the clock moves on: a source
\* that reached its start or its end, an ended event, a promise reaction.
SourceEventDue ==
    \/ \E k \in activeSources : k \notin started /\ now >= startAt[k]
    \/ \E k \in activeSources : k \in started /\ now >= endAt[k]
    \/ \E k \in ChunkIds : call[k] = "stopped"

ReactionDue ==
    \/ \E k \in ChunkIds : LinkReady(k)
    \/ cpc = "reading" /\ signalAborted

Tick ==
    /\ now < MaxTime
    /\ ~SourceEventDue
    /\ ~ReactionDue
    /\ now' = now + 1
    /\ UNCHANGED <<audioContext, queueTime, activeSources, call, startAt, endAt,
                   schedLog, stopEpoch, callEpoch, started, signalAborted, abortedInCall,
                   serverVars, consumerVars, routeVars, convVars, clientVars>>


(***************************************************************************)
(* SpecPlayer: the player driven directly.  enqueue is called for chunk    *)
(* 1, 2, ... without waiting for the promise of the call before.           *)
(***************************************************************************)
enqueue(k) ==
    /\ call[k] = "none"
    /\ \A j \in ChunkIds : j < k => call[j] # "none"
    /\ EnqueueCall(k)
    /\ UNCHANGED <<now, activeSources, startAt, endAt, schedLog, stopEpoch, callEpoch,
                   started, signalAborted, serverVars, consumerVars, routeVars, convVars, clientVars>>

SignalAborts ==
    /\ ~signalAborted
    /\ signalAborted' = TRUE
    /\ LET r == AbortSignal(call, activeSources)
       IN /\ call' = r.call
          /\ activeSources' = r.activeSources
          /\ abortedInCall' = r.abortedInCall
    /\ UNCHANGED <<now, audioContext, queueTime, startAt, endAt, schedLog, stopEpoch,
                   callEpoch, started, serverVars, consumerVars, routeVars, convVars, clientVars>>

stop ==
    /\ stopEpoch < MaxStops
    /\ stopEpoch' = stopEpoch + 1
    /\ LET r == PlayerStop(call, activeSources)
       IN /\ call' = r.call
          /\ activeSources' = r.activeSources
          /\ queueTime' = r.queueTime
    /\ UNCHANGED <<now, audioContext, startAt, endAt, schedLog, callEpoch, started,
                   signalAborted, abortedInCall, serverVars, consumerVars, routeVars, convVars, clientVars>>

NextPlayer ==
    \/ \E k \in ChunkIds : enqueue(k)
    \/ \E k \in ChunkIds, dur \in Durations : DecodeResolves(k, dur)
    \/ \E k \in ChunkIds : DecodeRejects(k)
    \/ \E k \in ChunkIds : SourceStarts(k)
    \/ \E k \in ChunkIds : SourceEnds(k)
    \/ \E k \in ChunkIds : StoppedSourceEnds(k)
    \/ SignalAborts
    \/ stop
    \/ Tick

SpecPlayer == Init /\ [][NextPlayer]_vars

(***************************************************************************)
(* SpecClient: the client turn, CallInterface.handleHoldEnd from the read  *)
(* loop on.  cpc is "reading" (in the read loop), "draining" (await        *)
(* playbackQueue) or "done" (the finally block has run).                   *)
(***************************************************************************)
\* The finally block: the controller is dropped if it is still this turn's.
DropController(ref) == IF ref = "turn" THEN "null" ELSE ref

\* An audio_chunk line is dispatched: enqueuePlayback adds a link to the
\* playbackQueue chain.
AudioChunkArrives ==
    /\ cpc = "reading"
    /\ ~signalAborted
    /\ ~LinkDue
    /\ arrived < MaxChunks
    /\ arrived' = arrived + 1
    /\ arrivedAt' = [arrivedAt EXCEPT ![arrived + 1] = now]
    /\ UNCHANGED <<cpc, chainNext, playbackAbortRef, hasStartedSpeaking, stoppedDuring,
                   startedAfterStop, turnVars, playerVars, serverVars, consumerVars, routeVars, convVars>>

\* An error line is dispatched: the message is kept in streamingError and
\* the read loop goes on.
ErrorEventArrives ==
    /\ cpc = "reading"
    /\ ~signalAborted
    /\ ~LinkDue
    /\ ~clientStreamingError
    /\ clientStreamingError' = TRUE
    /\ UNCHANGED <<cpc, arrived, arrivedAt, chainNext, playbackAbortRef,
                   hasStartedSpeaking, stoppedDuring, startedAfterStop, status,
                   isHolding, failedWith, callStopped, playerVars, serverVars, consumerVars, routeVars, convVars>>

\* A link of the playbackQueue chain runs once the link before it has
\* fulfilled; after a rejected link the rest of the chain never runs.
PlaybackLink(k) ==
    /\ LinkReady(k)
    /\ chainNext' = k + 1
    /\ IF signalAborted
       THEN /\ call' = [call EXCEPT ![k] = "skipped"]
            /\ UNCHANGED <<hasStartedSpeaking, status, audioContext, queueTime,
                           abortedInCall>>
       ELSE /\ hasStartedSpeaking' = TRUE
            /\ status' = IF hasStartedSpeaking THEN status ELSE "speaking"
            /\ EnqueueCall(k)
    /\ UNCHANGED <<cpc, arrived, arrivedAt, playbackAbortRef, stoppedDuring,
                   startedAfterStop, isHolding, clientStreamingError, failedWith,
                   callStopped, now, activeSources, startAt, endAt, schedLog,
                   stopEpoch, callEpoch, started, signalAborted, serverVars, consumerVars, routeVars, convVars>>

\* reader.read() reports the end of the body: the loop is left and the
\* handler awaits playbackQueue.
StreamEnds ==
    /\ cpc = "reading"
    /\ ~signalAborted
    /\ ~LinkDue
    /\ cpc' = "draining"
    /\ UNCHANGED <<arrived, arrivedAt, chainNext, playbackAbortRef, hasStartedSpeaking,
                   stoppedDuring, startedAfterStop, turnVars, playerVars, serverVars, consumerVars, routeVars, convVars>>

\* A catch block that leaves the status alone: only the finally block
\* resets it, and only when no audio was started.
StreamFailsKeepingStatus ==
    /\ cpc = "reading"
    /\ ~signalAborted
    /\ ~LinkDue
    /\ cpc' = "done"
    /\ playbackAbortRef' = DropController(playbackAbortRef)
    /\ failedWith' = "network"
    /\ status' = IF ~hasStartedSpeaking /\ ~isHolding THEN "idle" ELSE status
    /\ UNCHANGED <<arrived, arrivedAt, chainNext, hasStartedSpeaking, stoppedDuring,
                   startedAfterStop, isHolding, clientStreamingError, callStopped,
                   playerVars, serverVars, consumerVars, routeVars, convVars>>

\* reader.read() rejects because the connection failed: catch (handleError,
\* status idle), finally.
StreamFails ==
    /\ cpc = "reading"
    /\ ~signalAborted
    /\ ~LinkDue
    /\ cpc' = "done"
    /\ playbackAbortRef' = DropController(playbackAbortRef)
    /\ failedWith' = "network"
    /\ status' = "idle"
    /\ UNCHANGED <<arrived, arrivedAt, chainNext, hasStartedSpeaking, stoppedDuring,
                   startedAfterStop, isHolding, clientStreamingError, callStopped,
                   playerVars, serverVars, consumerVars, routeVars, convVars>>

\* reader.read() rejects with AbortError after the signal was aborted: the
\* catch block sets the status to idle and returns.
StreamAborted ==
    /\ cpc = "reading"
    /\ signalAborted
    /\ ~LinkDue
    /\ cpc' = "done"
    /\ playbackAbortRef' = DropController(playbackAbortRef)
    /\ status' = "idle"
    /\ UNCHANGED <<arrived, arrivedAt, chainNext, hasStartedSpeaking, stoppedDuring,
                   startedAfterStop, isHolding, clientStreamingError, failedWith,
                   callStopped, playerVars, serverVars, consumerVars, routeVars, convVars>>

\* A link of the chain rejected: await playbackQueue throws.
PlaybackRejected == \E k \in ChunkIds : k < chainNext /\ call[k] = "rejected"

\* A handler that goes on without waiting for the chain.
AwaitNoPlayback == TRUE

\* await playbackQueue settles: every link ran and the last one settled,
\* or a link rejected.
AwaitPlaybackQueue ==
    IF PlaybackRejected THEN TRUE
    ELSE chainNext > arrived /\ (IF arrived = 0 THEN TRUE ELSE call[arrived] \in Settled)

\* The rest of the handler after await playbackQueue: the rejection of the
\* chain goes to catch; an aborted turn returns; a recorded error event is
\* thrown into catch; otherwise the next status is set.  Then finally.
PlaybackDrained ==
    /\ cpc = "draining"
    /\ ~LinkDue
    /\ AwaitPlaybackQueue
    /\ cpc' = "done"
    /\ playbackAbortRef' = DropController(playbackAbortRef)
    /\ IF PlaybackRejected
       THEN failedWith' = "playback" /\ status' = "idle"
       ELSE IF signalAborted
       THEN /\ failedWith' = failedWith
            /\ status' = IF ~hasStartedSpeaking /\ ~isHolding THEN "idle" ELSE status
       ELSE IF clientStreamingError
       THEN failedWith' = "event" /\ status' = "idle"
       ELSE /\ failedWith' = failedWith
            /\ status' = IF isHolding THEN "listening" ELSE "idle"
    /\ UNCHANGED <<arrived, arrivedAt, chainNext, hasStartedSpeaking, stoppedDuring,
                   startedAfterStop, isHolding, clientStreamingError, callStopped,
                   playerVars, serverVars, consumerVars, routeVars, convVars>>

\* stopPlayback: the controller in playbackAbortRef, if any, is aborted and
\* dropped; then the player is stopped.
stopPlayback ==
    /\ stopEpoch < MaxStops
    /\ ~LinkDue
    /\ stopEpoch' = stopEpoch + 1
    /\ stoppedDuring' = stoppedDuring \cup {k \in ChunkIds : Sounding(k)}
    /\ playbackAbortRef' = "null"
    /\ LET a == IF playbackAbortRef = "turn" /\ ~signalAborted
                THEN AbortSignal(call, activeSources)
                ELSE [call |-> call, activeSources |-> activeSources,
                      abortedInCall |-> abortedInCall]
           r == PlayerStop(a.call, a.activeSources)
       IN /\ signalAborted' = (signalAborted \/ playbackAbortRef = "turn")
          /\ abortedInCall' = a.abortedInCall
          /\ call' = r.call
          /\ activeSources' = r.activeSources
          /\ queueTime' = r.queueTime
    /\ UNCHANGED <<cpc, arrived, arrivedAt, chainNext, hasStartedSpeaking,
                   startedAfterStop, now, audioContext, startAt, endAt, schedLog,
                   callEpoch, started, serverVars, consumerVars, routeVars, convVars>>

\* The talk button is pressed (barge-in): refused while the status is
\* processing or the button is already held; otherwise stopPlayback, then
\* the status is listening.
handleHoldStart ==
    /\ status # "processing"
    /\ ~isHolding
    /\ ~callStopped
    /\ stopPlayback
    /\ isHolding' = TRUE
    /\ status' = "listening"
    /\ UNCHANGED <<clientStreamingError, failedWith, callStopped>>

\* The call is ended: cancelActiveRecording, then stopPlayback.
handleStopCall ==
    /\ ~callStopped
    /\ stopPlayback
    /\ isHolding' = FALSE
    /\ callStopped' = TRUE
    /\ UNCHANGED <<status, clientStreamingError, failedWith>>

NextClient ==
    \/ AudioChunkArrives
    \/ ErrorEventArrives
    \/ \E k \in ChunkIds : PlaybackLink(k)
    \/ StreamEnds
    \/ StreamFails
    \/ StreamAborted
    \/ PlaybackDrained
    \/ handleHoldStart
    \/ handleStopCall
    \/ \E k \in ChunkIds, dur \in Durations : DecodeResolves(k, dur)
    \/ \E k \in ChunkIds : DecodeRejects(k)
    \/ \E k \in ChunkIds : SourceStarts(k)
    \/ \E k \in ChunkIds : SourceEnds(k)
    \/ \E k \in ChunkIds : StoppedSourceEnds(k)
    \/ Tick

SpecClient == Init /\ [][NextClient]_vars


(***************************************************************************)
(* Properties of the player and of the client turn.                        *)
(***************************************************************************)
\* Pairs of chunks scheduled one right after the other with no stop()
\* between the two.
ConsecutivePairs ==
    {<<schedLog[i], schedLog[i + 1]>> : i \in
        {j \in 1..(Len(schedLog) - 1) : callEpoch[schedLog[j]] = callEpoch[schedLog[j + 1]]}}

\* C6: for chunks enqueued with no stop() in between, the start time of
\* chunk k+1 is at or after the end time (start + duration) of chunk k.
C6_NoOverlap == \A p \in ConsecutivePairs : startAt[p[2]] >= endAt[p[1]]

\* Chunk b was scheduled while chunk a had not played to its end.
C6_Witness ==
    \E p \in ConsecutivePairs :
        /\ now < endAt[p[1]]
        /\ call[p[1]] = "scheduled"
        /\ call[p[2]] = "scheduled"

\* C7: when all chunks of a turn were delivered before the first of them
\* finished playing, the gap between the end of chunk k and the start of
\* chunk k+1 is at most the safety margin, however long decoding takes.
C7_GapBounded ==
    (/\ schedLog # <<>>
     /\ \A i \in 1..Len(schedLog) : arrivedAt[schedLog[i]] < endAt[schedLog[1]])
    => \A p \in ConsecutivePairs : startAt[p[2]] - endAt[p[1]] <= SafetyMargin

\* C8: once stopPlayback ran while a chunk of the turn was playing, no
\* further chunk of the turn starts playing.
C8_NothingStartsAfterStop == startedAfterStop = {}

\* C9: an enqueue call whose cancel signal is aborted, before decoding,
\* while decoding or while scheduled or playing, does not reject.
C9_AbortedCallNeverRejects == \A k \in abortedInCall : call[k] # "rejected"

\* The same for the calls that were not decoding when the signal aborted.
Aux_AbortOutsideDecode ==
    \A k \in abortedInCall : call[k] \in {"decoding", "resolved", "rejected"}

\* Without the condition on stop(): the cursor reset lets a chunk start
\* before the scheduled end of the one before it.
Aux_NoOverlapAcrossStop ==
    \A i \in 1..(Len(schedLog) - 1) : startAt[schedLog[i + 1]] >= endAt[schedLog[i]]


\* Whenever stopPlayback did abort the signal of the turn, nothing starts
\* playing after it.
Aux_StopWithController == signalAborted => startedAfterStop = {}


(***************************************************************************)
(* SpecScenario: one turn whose generation stream yields the text          *)
(* "Hello there. How can I help you today?" one character per part, the    *)
(* debounce timer firing at any point at which it is armed.                *)
(***************************************************************************)
HelloFirst == <<"H", "e", "l", "l", "o", " ", "t", "h", "e", "r", "e", ".">>

HelloSecond == <<"H", "o", "w", " ", "c", "a", "n", " ", "I", " ", "h", "e", "l", "p",
                 " ", "y", "o", "u", " ", "t", "o", "d", "a", "y", "?">>

HelloText == HelloFirst \o <<" ">> \o HelloSecond

ScenarioPart ==
    /\ pc = "gen"
    /\ llmParts < Len(HelloText)
    /\ llmParts' = llmParts + 1
    /\ LoopBody(<<HelloText[llmParts + 1]>>)
    /\ UNCHANGED <<pc, sink, chunkIndex, ttsClosed, ttsFinal, ttsResolved,
                   streamingError, hasStreamedAudio, tts, ttsErrors, notFoundEarly,
                   errorLog, closeThrew, closeCalled, endSent, playerVars, clientVars, consumerVars, routeVars, convVars>>

ScenarioEnds ==
    /\ llmParts = Len(HelloText)
    /\ GenEnds

NextScenario ==
    \/ OpenResolves
    \/ LlmStreamOpens
    \/ ScenarioPart
    \/ ScenarioEnds
    \/ FlushTimerFires
    \/ onAudio
    \/ onFinal
    \/ onClose
    \/ TtsCompleted

SpecScenario == Init /\ [][NextScenario]_vars

\* C11 as stated: the text fed one character per part yields exactly the
\* two flushed chunks "Hello there." and "How can I help you today?",
\* whenever the debounce timer fires.
C11_TwoChunks ==
    endSent => flushedChunks = << [index |-> 1, text |-> HelloFirst],
                                  [index |-> 2, text |-> HelloSecond] >>

\* C11 as amended: before the second sentence is complete nothing or
\* "Hello there." alone (by the timer) has been flushed; at the end of
\* generation the flushed chunks are the two sentences, when the timer
\* fired between them, or the single chunk that joins them with one space.
C11_TwoChunksOrOneJoined ==
    /\ llmParts < Len(HelloText) =>
          flushedChunks \in { <<>>, << [index |-> 1, text |-> HelloFirst] >> }
    /\ endSent =>
          \/ flushedChunks = << [index |-> 1, text |-> HelloFirst],
                                [index |-> 2, text |-> HelloSecond] >>
          \/ /\ flushedChunks = << [index |-> 1, text |-> HelloText] >>
             /\ flushAttempts <= 2

C11_Witness ==
    /\ endSent
    /\ llmParts = Len(HelloText)
    /\ Len(flushedChunks) = 2


(***************************************************************************)
(* SpecLive: the server turn with the progress its scheduling gives.  A    *)
(* continuation whose promise is settled does run, the connection attempt  *)
(* settles, and the generation stream is taken to be live.  Nothing is     *)
(* assumed of the adapter callbacks: the route has no timer of its own on  *)
(* ttsCompleted.                                                           *)
(***************************************************************************)
SpecLive ==
    /\ Spec
    /\ WF_vars(OpenResolves \/ OpenRejects)
    /\ WF_vars(LlmStreamOpens)
    /\ WF_vars(GenEnds)
    /\ WF_vars(TtsCompleted)

\* The same with an adapter that does call onClose.
SpecLiveResponsive == SpecLive /\ WF_vars(onClose)

\* The finally block has run: done was written to the sink.
DoneWritten == pc = "finished"

\* C12: every started turn eventually reaches its terminal done event, even
\* when the adapter never fires onFinal or onClose after end() was sent.
C12_EventuallyDone == (pc = "llm_start") ~> DoneWritten


(***************************************************************************)
(* SpecSegmenter: the generation loop fed with every delta of up to        *)
(* MaxDelta characters drawn from a letter, a space and a terminator, so   *)
(* that extractChunks meets every short buffer; no timer, no adapter       *)
(* callback.                                                               *)
(***************************************************************************)
Alphabet == {"a", " ", "."}

Deltas == UNION {[1..n -> Alphabet] : n \in 1..MaxDelta}

SegPart(delta) ==
    /\ pc = "gen"
    /\ llmParts < MaxFeeds
    /\ llmParts' = llmParts + 1
    /\ LoopBody(delta)
    /\ UNCHANGED <<pc, sink, chunkIndex, ttsClosed, ttsFinal, ttsResolved,
                   streamingError, hasStreamedAudio, tts, ttsErrors, notFoundEarly,
                   errorLog, closeThrew, closeCalled, endSent, playerVars, clientVars, consumerVars, routeVars, convVars>>

NextSegmenter ==
    \/ OpenResolves
    \/ LlmStreamOpens
    \/ \E delta \in Deltas : SegPart(delta)
    \/ GenEnds

SpecSegmenter == Init /\ [][NextSegmenter]_vars

\* C13: the buffer kept between two parts is the remainder extractChunks
\* returned; feeding it back with no new input returns no sentence and the
\* same remainder.
C13_RemainderIdempotent ==
    /\ extractChunks(buffer).ready = <<>>
    /\ extractChunks(buffer).remainder = buffer

\* A feed returned a sentence and left an unfinished one in the buffer.
C13_Witness ==
    /\ pc = "gen"
    /\ llmParts = MaxFeeds
    /\ pendingChunk # <<>>
    /\ Trim(buffer) # <<>>


(***************************************************************************)
(* Further properties of the server turn.                                  *)
(***************************************************************************)
\* C14: the wire stream of every turn holds exactly one metadata event and
\* it is the first event: whatever is on the wire starts with it, and a
\* turn that is over has written it.
C14_OneMetadataFirst ==
    /\ Count("metadata") <= 1
    /\ wire # <<>> => wire[1].type = "metadata"
    /\ TurnOver => Count("metadata") = 1

\* The same for the turns whose adapter connection did open.
Aux_MetadataWhenOpened ==
    /\ Count("metadata") <= 1
    /\ wire # <<>> => wire[1].type = "metadata"
    /\ pc \notin {"open", "rejected"} => Count("metadata") = 1


\* C15 as stated: every turn emits exactly one complete event, and the
\* event carries the full accumulated response text.
C15_ExactlyOneComplete ==
    (pc = "finished" /\ sink = "closed") =>
        /\ Count("complete") = 1
        /\ \A i \in IndexesOf("complete") : wire[i].text = fullResponse

\* C15 as amended: a turn emits at most one complete event; a turn that ran
\* to its end with the client connected emits one exactly when no stage
\* failed (no streamingError, no error event); the event is written after
\* ttsCompleted resolved and carries the accumulated response with the
\* whitespace at its two ends removed.
C15_OneCompleteUnlessFailed ==
    /\ Count("complete") <= 1
    /\ (pc = "finished" /\ sink = "closed") =>
          (Count("complete") = 1 <=> Count("error") = 0)
    /\ \A i \in IndexesOf("complete") :
          /\ streamingError = NoError
          /\ ttsResolved
          /\ wire[i].text = Trim(fullResponse)
          /\ \A j \in IndexesOf("error") : FALSE

C15_Witness ==
    /\ pc = "finished"
    /\ sink = "closed"
    /\ Count("complete") = 1
    /\ Count("audio_chunk") >= 1
    /\ fullResponse # <<>>


\* C16: a turn emits at most one error event, emits it only if a stage
\* failed (the generation stream, or an onError callback that was not a
\* benign timeout), and never emits both complete and error; several
\* failures in one turn still give a single error event.
C16_AtMostOneError ==
    /\ Count("error") <= 1
    /\ Count("error") = 0 \/ Count("complete") = 0
    /\ \A i \in IndexesOf("error") :
          \/ wire[i].text = <<"generation failed">>
          \/ \E j \in 1..Len(errorLog) :
                /\ wire[i].text = <<errorLog[j].kind>>
                /\ ~(errorLog[j].kind = "input_timeout_exceeded" /\ errorLog[j].afterAudio)

\* Two onError callbacks that both count as failures, one error event.
C16_Witness ==
    /\ pc = "finished"
    /\ Count("error") = 1
    /\ Len(errorLog) >= 2
    /\ \A j \in 1..Len(errorLog) : ~errorLog[j].afterAudio


\* The audio_chunk events on the wire, in emission order.
AudioEvents == SelectSeq(wire, LAMBDA e : e.type = "audio_chunk")

\* C17: the k-th audio_chunk event of a turn carries index k and the text
\* of the k-th flushed chunk, the one dequeued for it from the
\* awaiting-audio queue.
C17_AudioCarriesFlushedText ==
    \A k \in 1..Len(AudioEvents) :
        /\ AudioEvents[k].index = k
        /\ k <= Len(flushedChunks)
        /\ AudioEvents[k].text = flushedChunks[k].text

\* The index half of C17 alone, and the text whenever a chunk was dequeued.
Aux_AudioIndexes ==
    \A k \in 1..Len(AudioEvents) :
        /\ AudioEvents[k].index = k
        /\ AudioEvents[k].text # <<>> => /\ k <= Len(flushedChunks)
                                         /\ AudioEvents[k].text = flushedChunks[k].text


\* The onError callbacks of the turn that count as failures: every error
\* but an input timeout reported after audio was delivered.
HardErrors ==
    {j \in 1..Len(errorLog) :
        ~(errorLog[j].kind = "input_timeout_exceeded" /\ errorLog[j].afterAudio)}

\* C18: an input timeout reported after audio was delivered causes no error
\* event, so that a turn with only such errors and a live generation stream
\* has none; any other transport error, a timeout before any audio
\* included, is recorded, and a turn that runs to its end after it writes
\* the error event with its message and no complete event.
C18_TimeoutAfterAudioBenign ==
    /\ (HardErrors = {}) =>
          \A i \in IndexesOf("error") : wire[i].text = <<"generation failed">>
    /\ (HardErrors # {}) =>
          /\ streamingError \in {errorLog[j].kind : j \in HardErrors}
          /\ Count("complete") = 0
          /\ (pc = "finished" /\ sink = "closed") => Count("error") = 1

\* A turn with a benign timeout that went on to emit complete.
C18_Witness ==
    /\ \E j \in 1..Len(errorLog) :
          errorLog[j].kind = "input_timeout_exceeded" /\ errorLog[j].afterAudio
    /\ Count("complete") = 1
    /\ Count("error") = 0


\* C19: a disconnect causes no second fault: the writes attempted on the
\* cancelled sink are dropped, and the finalization of the turn runs to its
\* end (done written or dropped, the flush timer cleared) without raising
\* an error.
C19_DisconnectNoSecondFault ==
    pc = "finished" => /\ ~closeThrew
                       /\ ~flushTimeout

\* The same for the turns whose client stayed connected.
Aux_FinalizationWhenConnected ==
    (pc = "finished" /\ sink # "cancelled") => /\ ~closeThrew
                                               /\ ~flushTimeout
                                               /\ sink = "closed"

\* The writes themselves are swallowed: nothing reaches the wire after the
\* client went away, and the turn still gets to its finally block.
Aux_WritesSwallowed ==
    [][sink # "open" => wire' = wire]_vars


(***************************************************************************)
(* Further properties of the client turn.                                  *)
(***************************************************************************)
\* C20: the chunks of a turn are scheduled in the order their audio_chunk
\* events were delivered: the schedule log is increasing, and while the
\* enqueue call of a chunk is decoding or scheduled, every chunk delivered
\* before it is past its own scheduling step.
C20_ScheduledInDeliveryOrder ==
    /\ \A i, j \in 1..Len(schedLog) : i < j => schedLog[i] < schedLog[j]
    /\ \A k \in ChunkIds :
          call[k] \in {"decoding", "scheduled", "stopped"} =>
              \A j \in 1..(k - 1) : call[j] \in {"skipped", "resolved"}

\* Both chunks were delivered together, decoding the first took time and
\* decoding the second took none.
C20_Witness ==
    /\ Len(schedLog) = 2
    /\ stopEpoch = 0
    /\ arrivedAt[2] <= arrivedAt[1]
    /\ startAt[1] - SafetyMargin > arrivedAt[1]
    /\ startAt[2] - SafetyMargin = endAt[1]


\* C21: a chunk is decoded and scheduled as soon as the scheduling step of
\* the chunk before it has completed, without waiting for that chunk to
\* finish playing: once chunk k is scheduled and chunk k+1 was delivered,
\* the enqueue call of chunk k+1 is made (no link of the chain is left
\* waiting).
C21_NextScheduledWhilePreviousPlays ==
    \A k \in ChunkIds :
        (/\ k + 1 \in ChunkIds
         /\ call[k] = "scheduled"
         /\ k + 1 <= arrived
         /\ ~signalAborted
         /\ ~LinkDue)
        => call[k + 1] # "none"

\* What the chain does instead: the enqueue call of chunk k+1 is made only
\* once the promise of chunk k has settled, that is after its source ended.
Aux_NextWaitsForPlaybackEnd ==
    \A k \in ChunkIds :
        (k + 1 \in ChunkIds /\ call[k + 1] # "none") => call[k] \in Settled


\* C22: one stop action cancels the network consumption and the playback
\* of the turn together: after stopPlayback ran, the read loop applies no
\* further event (the signal is aborted or the loop is over) and no chunk
\* of the turn is scheduled any more.
C22_StopCancelsBoth ==
    stopEpoch > 0 =>
        /\ signalAborted \/ cpc = "done"
        /\ \A i \in 1..Len(schedLog) : callEpoch[schedLog[i]] = 0

\* The same when stopPlayback found the controller of the turn in
\* playbackAbortRef.
Aux_StopCancelsBothWithController ==
    signalAborted =>
        /\ stopEpoch > 0
        /\ \A i \in 1..Len(schedLog) : callEpoch[schedLog[i]] = 0


\* C25: the status is speaking only if some audio chunk of the turn was
\* successfully enqueued for playback (decoded and scheduled); a chunk
\* whose decoding is still pending is given the benefit of the doubt.
C25_SpeakingOnlyAfterEnqueued ==
    (status = "speaking" /\ \A k \in ChunkIds : call[k] # "decoding")
        => schedLog # <<>>

\* The status is speaking only after an audio chunk was handed to the
\* player, and from the first such chunk on unless the turn was stopped or
\* has ended.
Aux_SpeakingOnlyAfterHandedOver ==
    /\ status = "speaking" => (hasStartedSpeaking /\ chainNext > 1)
    /\ (hasStartedSpeaking /\ stopEpoch = 0 /\ cpc # "done") => status = "speaking"


\* Chunk k was played to its end: it was scheduled, its source started,
\* the clock reached its end time and no stop() cut it.
PlayedToEnd(k) ==
    /\ call[k] = "resolved"
    /\ k \in started
    /\ now >= endAt[k]
    /\ k \notin stoppedDuring
    /\ k \notin abortedInCall

\* C26: when a turn is reported as failed because of an error event, every
\* audio chunk received before the stream ended was played to its end; the
\* error event by itself stops no source and aborts nothing.
C26_ErrorKeepsQueuedPlayback ==
    /\ failedWith = "event" => \A k \in 1..arrived : PlayedToEnd(k)
    /\ (clientStreamingError /\ stopEpoch = 0) => (~signalAborted /\ stoppedDuring = {})

\* A turn failed by an error event after two chunks were received and
\* played to their ends.
C26_Witness ==
    /\ failedWith = "event"
    /\ arrived = 2
    /\ PlayedToEnd(1) /\ PlayedToEnd(2)


(***************************************************************************)
(* SpecClientLive: the client turn with the clock running on for as long   *)
(* as a scheduled source has not played out, and with every step that      *)
(* does not depend on the user eventually taken: the reactions of the      *)
(* handler, the events of the audio context, the end of the response       *)
(* stream.                                                                 *)
(***************************************************************************)
\* The audio clock advances; it does not stop before the last scheduled
\* source has played out.
ClockAdvances ==
    /\ now < MaxTime \/ \E k \in activeSources : now < endAt[k]
    /\ ~SourceEventDue
    /\ ~ReactionDue
    /\ now' = now + 1
    /\ UNCHANGED <<audioContext, queueTime, activeSources, call, startAt, endAt,
                   schedLog, stopEpoch, callEpoch, started, signalAborted, abortedInCall,
                   serverVars, consumerVars, routeVars, convVars, clientVars>>

\* The steps that need no user.
ClientProgress ==
    \/ \E k \in ChunkIds : PlaybackLink(k)
    \/ StreamEnds
    \/ StreamFails
    \/ StreamAborted
    \/ PlaybackDrained
    \/ \E k \in ChunkIds, dur \in Durations : DecodeResolves(k, dur)
    \/ \E k \in ChunkIds : DecodeRejects(k)
    \/ \E k \in ChunkIds : SourceStarts(k)
    \/ \E k \in ChunkIds : SourceEnds(k)
    \/ \E k \in ChunkIds : StoppedSourceEnds(k)
    \/ ClockAdvances

NextClientLive ==
    \/ AudioChunkArrives
    \/ ErrorEventArrives
    \/ handleHoldStart
    \/ handleStopCall
    \/ ClientProgress

SpecClientLive == Init /\ [][NextClientLive]_vars /\ WF_vars(ClientProgress)

\* Every source that was scheduled has played out or was stopped, no
\* decode is pending and no link of the chain is waiting to run.
PlaybackFinished ==
    /\ activeSources = {}
    /\ \A k \in ChunkIds : call[k] \notin {"decoding", "scheduled", "stopped"}
    /\ ~LinkDue

\* The turn has reached its terminal state: the handler has run its
\* finally block, the playback is over and the status is idle, or
\* listening while the talk button is held.
TurnTerminal ==
    /\ cpc = "done"
    /\ PlaybackFinished
    /\ status \in {"idle", "listening"}

\* C27: every turn whose call is not ended reaches its terminal state and
\* stays there: the status does not remain processing or speaking.  When
\* the turn has ended without an abort the status is listening exactly if
\* the talk button is held, else idle.
C27_ReachesTerminalState ==
    /\ <>[](callStopped \/ TurnTerminal)
    /\ [](cpc = "done" /\ ~callStopped /\ ~signalAborted
            => status = IF isHolding THEN "listening" ELSE "idle")

\* A turn with audio that has ended by the end of the stream, all of its
\* playback finished.
C27_Witness ==
    /\ TurnTerminal
    /\ ~callStopped
    /\ ~signalAborted
    /\ failedWith = "none"
    /\ arrived = MaxChunks
    /\ \A k \in 1..arrived : PlayedToEnd(k)

\* The handler is never left waiting with nothing to wait for: once the
\* stream has ended and the playback is finished, await playbackQueue has
\* settled; without any audio it has settled as soon as the stream ends.
Aux_NothingLeftToWaitFor ==
    /\ (cpc = "draining" /\ PlaybackFinished) => AwaitPlaybackQueue
    /\ (cpc = "draining" /\ arrived = 0) => AwaitPlaybackQueue
    /\ (cpc = "done" /\ ~callStopped) => status \in {"idle", "listening"}


(***************************************************************************)
(* SpecConsumer: the read loop of CallInterface.handleHoldEnd, from the    *)
(* bytes of the response body to the events dispatched by processLine and  *)
(* the content of the expert message.  A character is a one-character      *)
(* string; "U" stands for a character that UTF-8 encodes in two bytes,     *)
(* "U1" and "U2" for these bytes, "R" for U+FFFD.  A line {m} is a         *)
(* metadata event, {d...} a text_delta with the delta between the tag and  *)
(* the brace, {c...} a complete with its text, {z} a done.  (The effects   *)
(* of audio_chunk and error lines are those of SpecClient.)                *)
(***************************************************************************)
\* encoder.encode(...): the bytes of a string.
RECURSIVE utf8(_)
utf8(s) ==
    IF s = <<>> THEN <<>>
    ELSE (IF Head(s) = "U" THEN <<"U1", "U2">> ELSE <<Head(s)>>) \o utf8(Tail(s))

\* The UTF-8 decoder: a lead byte waits for its continuation byte; a byte
\* that cannot go on or start a character becomes U+FFFD.
RECURSIVE DecodeBytes(_, _, _)
DecodeBytes(out, pending, bytes) ==
    IF bytes = <<>> THEN [text |-> out, pending |-> pending]
    ELSE LET b == Head(bytes)
         IN IF pending # <<>>
            THEN IF b = "U2"
                 THEN DecodeBytes(Append(out, "U"), <<>>, Tail(bytes))
                 ELSE DecodeBytes(Append(out, "R"), <<>>, bytes)
            ELSE IF b = "U1" THEN DecodeBytes(out, <<"U1">>, Tail(bytes))
            ELSE IF b = "U2" THEN DecodeBytes(Append(out, "R"), <<>>, Tail(bytes))
            ELSE DecodeBytes(Append(out, b), <<>>, Tail(bytes))

\* decoder.decode(): the end of the input, an incomplete character becomes
\* U+FFFD.
decodeFlush(pending) == IF pending = <<>> THEN <<>> ELSE <<"R">>

\* A decoder that treats every read as a whole input.
decodeEach(pending, bytes) ==
    LET d == DecodeBytes(<<>>, <<>>, bytes)
    IN [text |-> d.text \o decodeFlush(d.pending), pending |-> <<>>]

\* decoder.decode(value, { stream: true })
decodeStream(pending, bytes) == DecodeBytes(<<>>, pending, bytes)

Tags == {"m", "d", "c", "z"}

PayloadChars == {"a", "U", "R", " "}

\* JSON.parse(line) succeeds.
IsJson(line) ==
    /\ Len(line) >= 3
    /\ line[1] = "{"
    /\ line[Len(line)] = "}"
    /\ line[2] \in Tags
    /\ \A i \in 3..(Len(line) - 1) : line[i] \in PayloadChars
    /\ line[2] \in {"m", "z"} => Len(line) = 3

TypeOf(tag) ==
    CASE tag = "m" -> "metadata"
      [] tag = "d" -> "text_delta"
      [] tag = "c" -> "complete"
      [] OTHER -> "done"

\* JSON.parse(line): the payload.
Parse(line) == [type |-> TypeOf(line[2]), text |-> SubSeq(line, 3, Len(line) - 1)]

\* The locals of handleHoldEnd that processLine reads and writes.
ConsumerState ==
    [expertMessageId |-> expertMessageId, fullExpertResponse |-> fullExpertResponse,
     messages |-> messages, dispatched |-> dispatched,
     deltasSinceOpen |-> deltasSinceOpen, completeTexts |-> completeTexts,
     lateDelta |-> lateDelta]

SetConsumer(st) ==
    /\ expertMessageId' = st.expertMessageId
    /\ fullExpertResponse' = st.fullExpertResponse
    /\ messages' = st.messages
    /\ dispatched' = st.dispatched
    /\ deltasSinceOpen' = st.deltasSinceOpen
    /\ completeTexts' = st.completeTexts
    /\ lateDelta' = st.lateDelta

\* handleMetadata: an expert message with empty content is added and
\* becomes the open one.
handleMetadata(st) ==
    [st EXCEPT !.messages = Append(@, <<>>),
               !.expertMessageId = Len(st.messages) + 1,
               !.deltasSinceOpen = <<>>,
               !.completeTexts = <<>>,
               !.lateDelta = FALSE]

\* processLine: an empty line and a line that is not JSON are dropped;
\* else the switch on payload.type.
processLine(st, line) ==
    IF line = <<>> THEN st
    ELSE IF ~IsJson(line) THEN st
    ELSE LET p == Parse(line)
             s1 == [st EXCEPT !.dispatched = Append(@, p)]
         IN CASE p.type = "metadata" -> handleMetadata(s1)
              [] p.type = "text_delta" ->
                    LET s2 == [s1 EXCEPT !.deltasSinceOpen = @ \o p.text,
                                         !.lateDelta = @ \/ s1.completeTexts # <<>>]
                    IN IF s1.expertMessageId # 0
                       THEN [s2 EXCEPT !.fullExpertResponse = @ \o p.text,
                                       !.messages[s1.expertMessageId] =
                                            s1.fullExpertResponse \o p.text]
                       ELSE s2
              [] p.type = "complete" ->
                    LET s2 == [s1 EXCEPT !.completeTexts = Append(@, p.text)]
                    IN IF s1.expertMessageId # 0 /\ p.text # <<>>
                       THEN [s2 EXCEPT !.fullExpertResponse = p.text,
                                       !.messages[s1.expertMessageId] = p.text]
                       ELSE s2
              [] OTHER -> s1

\* buffer.indexOf('\n'), 1-based; 0 when there is none.
NewlineAt(buf) ==
    LET S == {i \in 1..Len(buf) : buf[i] = "\n"}
    IN IF S = {} THEN 0 ELSE Min(S)

\* The inner while loop: every complete line of the buffer is cut off,
\* trimmed and processed.
RECURSIVE DrainLines(_, _)
DrainLines(st, buf) ==
    LET i == NewlineAt(buf)
    IN IF i = 0 THEN [st |-> st, buffer |-> buf]
       ELSE DrainLines(processLine(st, Trim(SubSeq(buf, 1, i - 1))),
                       SubSeq(buf, i + 1, Len(buf)))

\* The lines a body is made of.
LinePool ==
    {<<"{", "m", "}">>,
     <<" ", "{", "d", "U", "}", " ">>,
     <<"{", "d", " ", "}">>,
     <<"{", "c", "}">>,
     <<"{", "c", "a", "}">>,
     <<"{", "d">>,
     <<" ">>}

Bodies == UNION {[1..n -> LinePool] : n \in 0..MaxLines}

\* The text of a body: its lines, a newline after each but, if
\* finalNewline is false, the last.
RECURSIVE WireText(_, _)
WireText(lines, finalNewline) ==
    IF lines = <<>> THEN <<>>
    ELSE IF Len(lines) = 1
         THEN Head(lines) \o (IF finalNewline THEN <<"\n">> ELSE <<>>)
         ELSE Head(lines) \o <<"\n">> \o WireText(Tail(lines), finalNewline)

\* fetch resolved with a streamed body.
ResponseArrives(lines, finalNewline) ==
    /\ rpc = "idle"
    /\ rpc' = "reading"
    /\ sentLines' = lines
    /\ body' = utf8(WireText(lines, finalNewline))
    /\ UNCHANGED <<bodyPos, decoderPending, lineBuffer, expertMessageId,
                   fullExpertResponse, messages, dispatched, deltasSinceOpen,
                   completeTexts, lateDelta, serverVars, playerVars, clientVars,
                   routeVars, convVars>>

\* reader.read() yields the next n bytes: they are decoded and appended to
\* the buffer, and the complete lines are processed.
ReadChunk(n) ==
    /\ rpc = "reading"
    /\ n >= 1
    /\ bodyPos + n <= Len(body)
    /\ LET d == decodeStream(decoderPending, SubSeq(body, bodyPos + 1, bodyPos + n))
           r == DrainLines(ConsumerState, lineBuffer \o d.text)
       IN /\ decoderPending' = d.pending
          /\ lineBuffer' = r.buffer
          /\ SetConsumer(r.st)
    /\ bodyPos' = bodyPos + n
    /\ UNCHANGED <<rpc, body, sentLines, serverVars, playerVars, clientVars, routeVars, convVars>>

\* reader.read() reports done: the decoder is flushed and what is left in
\* the buffer is processed as the last line.
ReadDone ==
    /\ rpc = "reading"
    /\ bodyPos = Len(body)
    /\ rpc' = "finished"
    /\ LET buf == lineBuffer \o decodeFlush(decoderPending)
       IN /\ lineBuffer' = buf
          /\ SetConsumer(IF Trim(buf) # <<>> THEN processLine(ConsumerState, Trim(buf))
                         ELSE ConsumerState)
    /\ decoderPending' = <<>>
    /\ UNCHANGED <<body, bodyPos, sentLines, serverVars, playerVars, clientVars,
                   routeVars, convVars>>

\* The bodies the response may arrive with; none once it has arrived.
BodiesAwaited == IF rpc = "idle" THEN Bodies ELSE {}

\* The sizes of the next read: a few bytes, or all that is left.
ReadSizes == (1..MaxRead) \cup {Len(body) - bodyPos}

NextConsumer ==
    \/ \E lines \in BodiesAwaited, finalNewline \in BOOLEAN :
            ResponseArrives(lines, finalNewline)
    \/ \E n \in ReadSizes : ReadChunk(n)
    \/ ReadDone

SpecConsumer == Init /\ [][NextConsumer]_vars

\* The events of a sequence of lines: one for every line that, trimmed, is
\* not empty and is JSON, in order.
ExpectedEvents(lines) ==
    LET trimmed == [i \in 1..Len(lines) |-> Trim(lines[i])]
        json == SelectSeq(trimmed, IsJson)
    IN [i \in 1..Len(json) |-> Parse(json[i])]

\* The number of newline bytes among the bytes read so far: the lines of
\* the body that have arrived whole.
LinesArrived == Cardinality({i \in 1..bodyPos : body[i] = "\n"})

\* C23: however the body is cut into reads, and with or without a newline
\* after the last line, the events dispatched are those of the lines of
\* the body that are not empty and are JSON, in wire order; a line that is
\* not JSON is skipped and the lines after it are dispatched.
C23_SameEventsForEverySplit ==
    /\ rpc = "reading" => dispatched = ExpectedEvents(SubSeq(sentLines, 1, LinesArrived))
    /\ rpc = "finished" => dispatched = ExpectedEvents(sentLines)

\* A read ended inside a two-byte character, in the middle of the third
\* line, after a line that is not JSON was skipped and the line after it
\* was dispatched.
C23_Witness ==
    /\ rpc = "reading"
    /\ decoderPending # <<>>
    /\ LinesArrived = 2
    /\ ~IsJson(Trim(sentLines[1]))
    /\ Len(dispatched) = 1


\* C24: with one metadata event received, the content of the expert
\* message is the concatenation of the deltas received since, until the
\* complete event, whose text is the response as the server accumulated it
\* (trimmed); from then on the content is the text of the complete event.
C24_ContentFollowsDeltasThenComplete ==
    (/\ Len(messages) = 1
     /\ Len(completeTexts) <= 1
     /\ ~lateDelta
     /\ completeTexts # <<>> => completeTexts[1] = Trim(deltasSinceOpen))
    => messages[1] = IF completeTexts # <<>> THEN completeTexts[1] ELSE deltasSinceOpen

\* The same with any complete event whose text is not empty.
Aux_ContentFollowsNonEmptyComplete ==
    (/\ Len(messages) = 1
     /\ Len(completeTexts) <= 1
     /\ ~lateDelta
     /\ completeTexts # <<>> => completeTexts[1] # <<>>)
    => messages[1] = IF completeTexts # <<>> THEN completeTexts[1] ELSE deltasSinceOpen


(***************************************************************************)
(* SpecRoute: the streaming route as a whole, POST from the form data to   *)
(* the end of ReadableStream.start, for several requests at a time.  The   *)
(* turn inside start() is taken in its large steps: the synthesis          *)
(* connection is opened, metadata is written, audio is written, the turn   *)
(* completes or fails.  Requests for one session come from the call        *)
(* screen of that session, which refuses the talk button while its         *)
(* status is processing.                                                   *)
(***************************************************************************)
SessionFields == {NoField, Field(<<" ">>)} \cup {Field(s) : s \in Sessions}

Transcripts == {<<>>, <<" ">>, <<"h", "i">>}

\* typeof sessionId === 'string' && sessionId.trim()
ValidSessionId(f) == f.isString /\ Trim(f.value) # <<>>

\* !transcript?.trim()
EmptyTranscript(t) == Trim(t) = <<>>

\* A turn is in progress from the moment its utterance is accepted until
\* start() has run to its end.
InProgress(r) == reqPc[r] \in {"routing", "opening", "streaming"}

\* Event type t was written to the stream w.
Written(w, t) == \E i \in 1..Len(w) : w[i] = t

\* The call screen shows processing for request p: the request was sent
\* and neither a refusal, nor the first audio chunk, nor the end of the
\* stream has come back.
ClientBusyWith(p) ==
    \/ reqPc[p] \in {"transcribing", "routing", "opening"}
    \/ reqPc[p] = "streaming" /\ ~Written(reqWire[p], "audio_chunk")

\* enqueuePayload on the stream of request r: dropped once the client has
\* gone away.
Write(w, r, type) == IF sinkCancelled[r] THEN w ELSE Append(w, type)

\* return NextResponse.json(..., { status })
Respond(r, code) ==
    /\ response' = [response EXCEPT ![r] = code]
    /\ reqPc' = [reqPc EXCEPT ![r] = "responded"]

\* addMessageToSession(sessionId, message)
addMessageToSession(st, sessionId, message) ==
    [st EXCEPT ![sessionId].conversationHistory = Append(@, message)]

\* POST up to await transcribeAudio: the two field checks, then the
\* session is looked up and created if it is missing.  A request of a
\* call screen that barges in on its own turn has aborted that turn's
\* fetch.
POST(r, f, audio) ==
    /\ reqPc[r] = "idle"
    /\ r > 1 => reqPc[r - 1] # "idle"
    /\ \A p \in Requests : (ValidSessionId(f) /\ reqSession[p] = f) => ~ClientBusyWith(p)
    /\ reqSession' = [reqSession EXCEPT ![r] = f]
    /\ reqAudio' = [reqAudio EXCEPT ![r] = audio]
    /\ sinkCancelled' = [p \in Requests |->
            sinkCancelled[p] \/ (ValidSessionId(f) /\ reqSession[p] = f /\ InProgress(p))]
    /\ IF ~ValidSessionId(f) \/ ~audio
       THEN Respond(r, "400") /\ UNCHANGED store
       ELSE /\ reqPc' = [reqPc EXCEPT ![r] = "transcribing"]
            /\ store' = [store EXCEPT ![f.value] = IF @.exists THEN @ ELSE NewSession]
            /\ UNCHANGED response
    /\ UNCHANGED <<transcribed, reqWire, synthesis, acceptedDuring, serverVars,
                   playerVars, clientVars, consumerVars, convVars>>

\* transcribeAudio resolves: an empty transcript is refused; else the user
\* message is added to the session and routeToExpert is awaited.
TranscribeResolves(r, t) ==
    /\ reqPc[r] = "transcribing"
    /\ IF EmptyTranscript(t)
       THEN /\ transcribed' = [transcribed EXCEPT ![r] = "empty"]
            /\ Respond(r, "400")
            /\ UNCHANGED <<store, acceptedDuring>>
       ELSE /\ transcribed' = [transcribed EXCEPT ![r] = "speech"]
            /\ store' = addMessageToSession(store, reqSession[r].value,
                                            [role |-> "user", req |-> r])
            /\ acceptedDuring' = [acceptedDuring EXCEPT ![r] =
                    {p \in Requests \ {r} : reqSession[p] = reqSession[r] /\ InProgress(p)}]
            /\ reqPc' = [reqPc EXCEPT ![r] = "routing"]
            /\ UNCHANGED response
    /\ UNCHANGED <<reqSession, reqAudio, reqWire, synthesis, sinkCancelled, serverVars,
                   playerVars, clientVars, consumerVars, convVars>>

\* A transcription failure written to a stream.
TranscribeRejectsIntoStream(r) ==
    /\ reqPc[r] = "transcribing"
    /\ transcribed' = [transcribed EXCEPT ![r] = "failed"]
    /\ response' = [response EXCEPT ![r] = "stream"]
    /\ reqWire' = [reqWire EXCEPT ![r] = Write(Write(@, r, "error"), r, "done")]
    /\ reqPc' = [reqPc EXCEPT ![r] = "failed"]
    /\ UNCHANGED <<reqSession, reqAudio, synthesis, sinkCancelled, store,
                   acceptedDuring, serverVars, playerVars, clientVars, consumerVars, convVars>>

\* transcribeAudio rejects: the outer catch answers 500.
TranscribeRejects(r) ==
    /\ reqPc[r] = "transcribing"
    /\ transcribed' = [transcribed EXCEPT ![r] = "failed"]
    /\ Respond(r, "500")
    /\ UNCHANGED <<reqSession, reqAudio, reqWire, synthesis, sinkCancelled, store,
                   acceptedDuring, serverVars, playerVars, clientVars, consumerVars, convVars>>

\* routeToExpert resolves: the expert is stored, the stream is made and
\* returned; start() runs up to await createElevenLabsRealtimeStream.
RouteToExpertResolves(r) ==
    /\ reqPc[r] = "routing"
    /\ store' = [store EXCEPT ![reqSession[r].value].expert = TRUE]
    /\ response' = [response EXCEPT ![r] = "stream"]
    /\ synthesis' = [synthesis EXCEPT ![r] = TRUE]
    /\ reqPc' = [reqPc EXCEPT ![r] = "opening"]
    /\ UNCHANGED <<reqSession, reqAudio, transcribed, reqWire, sinkCancelled,
                   acceptedDuring, serverVars, playerVars, clientVars, consumerVars, convVars>>

\* routeToExpert rejects: the outer catch answers 500.
RouteToExpertRejects(r) ==
    /\ reqPc[r] = "routing"
    /\ Respond(r, "500")
    /\ UNCHANGED <<reqSession, reqAudio, transcribed, reqWire, synthesis, sinkCancelled,
                   store, acceptedDuring, serverVars, playerVars, clientVars,
                   consumerVars, convVars>>

\* The synthesis connection is open: metadata is written.
SynthesisOpens(r) ==
    /\ reqPc[r] = "opening"
    /\ reqWire' = [reqWire EXCEPT ![r] = Write(@, r, "metadata")]
    /\ reqPc' = [reqPc EXCEPT ![r] = "streaming"]
    /\ UNCHANGED <<reqSession, reqAudio, response, transcribed, synthesis, sinkCancelled,
                   store, acceptedDuring, serverVars, playerVars, clientVars,
                   consumerVars, convVars>>

\* createElevenLabsRealtimeStream rejects: start() rejects and the stream
\* is errored.
SynthesisOpenFails(r) ==
    /\ reqPc[r] = "opening"
    /\ reqPc' = [reqPc EXCEPT ![r] = "errored"]
    /\ UNCHANGED <<reqSession, reqAudio, response, transcribed, reqWire, synthesis,
                   sinkCancelled, store, acceptedDuring, serverVars, playerVars,
                   clientVars, consumerVars, convVars>>

\* onAudio writes the first audio chunk of the turn.
AudioWritten(r) ==
    /\ reqPc[r] = "streaming"
    /\ ~sinkCancelled[r]
    /\ ~Written(reqWire[r], "audio_chunk")
    /\ reqWire' = [reqWire EXCEPT ![r] = Write(@, r, "audio_chunk")]
    /\ UNCHANGED <<reqPc, reqSession, reqAudio, response, transcribed, synthesis,
                   sinkCancelled, store, acceptedDuring, serverVars, playerVars,
                   clientVars, consumerVars, convVars>>

\* A turn that succeeds without recording its answer.
TurnCompletesUnrecorded(r) ==
    /\ reqPc[r] = "streaming"
    /\ reqWire' = [reqWire EXCEPT ![r] = Write(Write(@, r, "complete"), r, "done")]
    /\ reqPc' = [reqPc EXCEPT ![r] = "completed"]
    /\ UNCHANGED <<reqSession, reqAudio, response, transcribed, synthesis, sinkCancelled,
                   store, acceptedDuring, serverVars, playerVars, clientVars,
                   consumerVars, convVars>>

\* The turn succeeds: the expert message is added to the session, complete
\* is written, and done in the finally block.
TurnCompletes(r) ==
    /\ reqPc[r] = "streaming"
    /\ store' = addMessageToSession(store, reqSession[r].value,
                                    [role |-> "expert", req |-> r])
    /\ reqWire' = [reqWire EXCEPT ![r] = Write(Write(@, r, "complete"), r, "done")]
    /\ reqPc' = [reqPc EXCEPT ![r] = "completed"]
    /\ UNCHANGED <<reqSession, reqAudio, response, transcribed, synthesis, sinkCancelled,
                   acceptedDuring, serverVars, playerVars, clientVars, consumerVars, convVars>>

\* The turn fails: the catch block writes error, the finally block done.
TurnFails(r) ==
    /\ reqPc[r] = "streaming"
    /\ reqWire' = [reqWire EXCEPT ![r] = Write(Write(@, r, "error"), r, "done")]
    /\ reqPc' = [reqPc EXCEPT ![r] = "failed"]
    /\ UNCHANGED <<reqSession, reqAudio, response, transcribed, synthesis, sinkCancelled,
                   store, acceptedDuring, serverVars, playerVars, clientVars,
                   consumerVars, convVars>>

NextRoute ==
    \E r \in Requests :
        \/ \E f \in SessionFields, audio \in BOOLEAN : POST(r, f, audio)
        \/ \E t \in Transcripts : TranscribeResolves(r, t)
        \/ TranscribeRejects(r)
        \/ RouteToExpertResolves(r)
        \/ RouteToExpertRejects(r)
        \/ SynthesisOpens(r)
        \/ SynthesisOpenFails(r)
        \/ AudioWritten(r)
        \/ TurnCompletes(r)
        \/ TurnFails(r)

SpecRoute == Init /\ [][NextRoute]_vars

\* Request r was answered with the status code and nothing else: no
\* stream, no event, no synthesis connection.
Refused(r, code) ==
    /\ reqPc[r] = "responded"
    /\ response[r] = code
    /\ reqWire[r] = <<>>
    /\ ~synthesis[r]

\* C28: a request whose sessionId is missing or blank, or that has no
\* audio file, or whose transcript is empty, is answered with 400, and one
\* whose transcription failed with 500; none of them gets a stream, an
\* event or a synthesis connection.
C28_PreStreamErrorsAreOrdinaryFailures ==
    \A r \in Requests :
        /\ (reqPc[r] # "idle" /\ ~ValidSessionId(reqSession[r])) => Refused(r, "400")
        /\ (reqPc[r] # "idle" /\ ~reqAudio[r]) => Refused(r, "400")
        /\ transcribed[r] = "empty" => Refused(r, "400")
        /\ transcribed[r] = "failed" => Refused(r, "500")

\* The transcription of one request failed and another request came with
\* a blank sessionId.
C28_Witness ==
    /\ transcribed[1] = "failed" /\ response[1] = "500"
    /\ reqSession[2] = Field(<<" ">>) /\ response[2] = "400"


\* C29: an utterance is accepted for a session only when no other turn of
\* that session is in progress.
C29_OneTurnPerSession == \A r \in Requests : acceptedDuring[r] = {}

\* Turns in progress at the same time belong to one session only if the
\* call screen has barged in on the earlier one: the earlier one has
\* written audio, and its client is gone.
Aux_ConcurrentTurnsOnlyByBargeIn ==
    \A r \in Requests : \A p \in acceptedDuring[r] : sinkCancelled[p]

\* The positions of the turns of request r with the given role in the
\* history of its session.
TurnsOf(r, role) ==
    LET h == store[reqSession[r].value].conversationHistory
    IN {i \in 1..Len(h) : h[i] = [role |-> role, req |-> r]}

\* C30 as stated: every turn that has written its terminal event has
\* added exactly one user turn and, after it, exactly one expert turn to
\* the history of its session.
C30_OneUserThenOneExpertTurn ==
    \A r \in Requests :
        Written(reqWire[r], "done") =>
            /\ Cardinality(TurnsOf(r, "user")) = 1
            /\ Cardinality(TurnsOf(r, "expert")) = 1
            /\ \A i \in TurnsOf(r, "user"), j \in TurnsOf(r, "expert") : i < j

\* A turn that has written complete has added one user turn and then one
\* expert turn; a turn that failed has added its user turn only.
TurnsOfFinishedExchanges ==
    \A r \in Requests :
        Written(reqWire[r], "done") =>
            /\ Cardinality(TurnsOf(r, "user")) = 1
            /\ Cardinality(TurnsOf(r, "expert")) =
                    IF Written(reqWire[r], "complete") THEN 1 ELSE 0
            /\ \A i \in TurnsOf(r, "user"), j \in TurnsOf(r, "expert") : i < j

\* The history of a session is only appended to.
HistoryAppendOnly ==
    [][\A s \in Sessions :
          /\ Len(store'[s].conversationHistory) >= Len(store[s].conversationHistory)
          /\ SubSeq(store'[s].conversationHistory, 1, Len(store[s].conversationHistory))
                = store[s].conversationHistory]_vars


\* C30 as amended: every turn that has written its terminal event has
\* added exactly one user turn to the history of its session; it has
\* added exactly one expert turn, after the user turn, if it has written
\* complete, and no expert turn if it failed; the history of a session is
\* only appended to.
C30_OneUserTurnAndOneExpertTurnIfCompleted ==
    /\ []TurnsOfFinishedExchanges
    /\ HistoryAppendOnly

\* One turn has completed and another one, of the same session, has
\* failed, both with their terminal event written.
C30_Witness ==
    /\ reqSession[1] = reqSession[2]
    /\ reqPc[1] = "completed" /\ Written(reqWire[1], "done")
    /\ reqPc[2] = "failed" /\ Written(reqWire[2], "done")

(***************************************************************************)
(* SpecFlush: the generation loop fed with parts that are each one whole   *)
(* sentence, so that every part makes exactly one appendToPending call.    *)
(* The sentences are sized around the thresholds: 49 and 50 characters,    *)
(* 23 and 24 words; three of them joined make 149 or 150 characters.  The  *)
(* debounce timer fires at any point at which it is armed.                 *)
(***************************************************************************)
\* One word of n characters, the terminator included.
OneWord(n) == Repeat(<<"a">>, n - 1) \o <<".">>

\* n words of one character each, the last one followed by the terminator:
\* 2n characters.
Words(n) == Repeat(<<"a", " ">>, n - 1) \o <<"a", ".">>

SentencePool == {OneWord(49), OneWord(50), Words(23), Words(24)}

FlushPart(delta) ==
    /\ pc = "gen"
    /\ llmParts < MaxSentences
    /\ llmParts' = llmParts + 1
    /\ LoopBody(delta)
    /\ UNCHANGED <<pc, sink, chunkIndex, ttsClosed, ttsFinal, ttsResolved,
                   streamingError, hasStreamedAudio, tts, ttsErrors, notFoundEarly,
                   errorLog, closeThrew, closeCalled, endSent, playerVars, clientVars, consumerVars, routeVars, convVars>>

NextFlush ==
    \/ OpenResolves
    \/ LlmStreamOpens
    \/ \E delta \in SentencePool : FlushPart(delta)
    \/ FlushTimerFires
    \/ GenEnds

SpecFlush == Init /\ [][NextFlush]_vars

\* The step consumed a part, that is, made one appendToPending call.
AppendStep == llmParts' = llmParts + 1

\* The step sent a chunk to the adapter.
FlushedInStep == Len(flushedChunks') = Len(flushedChunks) + 1

\* The pending chunk as it was after the append of the step: what was sent
\* when the step flushed, what is pending otherwise.
AfterAppend ==
    IF FlushedInStep THEN flushedChunks'[Len(flushedChunks')].text ELSE pendingChunk'

\* C34: appendToPending flushes the pending chunk immediately exactly when,
\* after appending, it has at least 50 characters while no chunk was flushed
\* yet in the turn, or at least 150 characters once a chunk was flushed, or
\* at least 24 whitespace-separated words whatever its length; in every
\* other case it does not flush immediately.
C34_FlushesExactlyAtThresholds ==
    [][AppendStep =>
         /\ Len(flushedChunks') \in {Len(flushedChunks), Len(flushedChunks) + 1}
         /\ FlushedInStep <=>
               \/ flushedChunks = <<>> /\ Len(AfterAppend) >= 50
               \/ flushedChunks # <<>> /\ Len(AfterAppend) >= 150
               \/ WordCount(AfterAppend) >= 24
         /\ ~FlushedInStep => pendingChunk' # <<>>]_vars

\* A first chunk flushed by its words below 50 characters, then a chunk
\* flushed at exactly 150 characters, none flushed by the timer.
C34_Witness ==
    /\ Len(flushedChunks) = 2
    /\ flushAttempts = 2
    /\ Len(flushedChunks[1].text) < 50 /\ WordCount(flushedChunks[1].text) = 24
    /\ Len(flushedChunks[2].text) = 150 /\ WordCount(flushedChunks[2].text) < 24
    /\ pendingChunk = <<>>

(***************************************************************************)
(* SpecDebounce: the server turn seen from the flush scheduler.  A timer   *)
(* of the event loop that stays armed does fire; nothing is assumed of     *)
(* the generation stream, which may stall for ever, fail or end.  Of the   *)
(* adapter callbacks only onClose is kept, which lets the turn run to its  *)
(* end: none of them reads or writes the pending chunk or the timer.       *)
(***************************************************************************)
NextDebounce ==
    \/ OpenResolves
    \/ LlmStreamOpens
    \/ \E delta \in Fragments : GenPart(delta)
    \/ GenerationFails
    \/ GenEnds
    \/ FlushTimerFires
    \/ ClientDisconnects
    \/ onClose
    \/ TtsCompleted

SpecDebounce == Init /\ [][NextDebounce]_vars /\ WF_vars(FlushTimerFires)

\* The step is the callback of the debounce timer: flushPendingChunk ran,
\* and neither a part was consumed nor did start() move on.
TimerStep ==
    /\ flushAttempts' = flushAttempts + 1
    /\ llmParts' = llmParts
    /\ pc' = pc

\* The step appended at least one sentence and left a chunk pending.
ArmingStep ==
    /\ llmParts' = llmParts + 1
    /\ pendingChunk' # pendingChunk
    /\ pendingChunk' # <<>>

\* C35: when a sentence is appended and no threshold is met, one debounce
\* timer is armed after the one armed before was cancelled, so at most one
\* timer is pending at any time; when the timer fires the pending chunk is
\* flushed, and it does fire unless a new sentence re-arms it, so a
\* non-empty pending chunk is sent to the adapter even when generation
\* stalls.
C35_OneTimerFlushesPending ==
    /\ [](timers <= 1 /\ (flushTimeout <=> timers = 1))
    /\ [][ArmingStep => timers' = 1]_vars
    /\ [][TimerStep =>
            /\ timers' = 0
            /\ pendingChunk' = <<>>
            /\ pendingChunk # <<>> =>
                  /\ FlushedInStep
                  /\ flushedChunks'[Len(flushedChunks')].text = pendingChunk]_vars
    /\ (pc = "gen" /\ pendingChunk # <<>>) ~> (pendingChunk = <<>> \/ pc # "gen")
    /\ [][pc = "gen" /\ pendingChunk # <<>> /\ pc' = "gen" /\ pendingChunk' = <<>>
            => FlushedInStep]_vars

\* Two sentences were appended one after the other, each arming the timer,
\* and the timer then fired once and sent both as one chunk while the
\* generation was still going on.
C35_Witness ==
    /\ pc = "gen"
    /\ llmParts = 2
    /\ flushAttempts = 1
    /\ timers = 0
    /\ flushedChunks = << [index |-> 1, text |-> <<".", " ", ".">>] >>

(***************************************************************************)
(* The end of generation and what is sent to the adapter over a turn.      *)
(***************************************************************************)
\* The text not yet sent when generation is exhausted: the pending chunk
\* and the unterminated rest of the segmenter buffer.
Unsent ==
    IF pendingChunk = <<>> THEN Trim(buffer)
    ELSE IF Trim(buffer) = <<>> THEN pendingChunk
    ELSE pendingChunk \o <<" ">> \o Trim(buffer)

\* The step in which the generation loop is left normally and end() is sent.
EndStep == ~endSent /\ endSent'

\* C36: when generation is exhausted, all text not yet sent (the
\* unterminated rest of the segmenter buffer and any non-empty pending
\* chunk) is flushed to the adapter before end() is sent and before
\* complete is emitted.
C36_TailFlushedBeforeEnd ==
    /\ [][EndStep =>
            /\ Unsent # <<>> =>
                  /\ FlushedInStep
                  /\ flushedChunks'[Len(flushedChunks')].text = Unsent
            /\ Unsent = <<>> => flushedChunks' = flushedChunks]_vars
    /\ [](endSent => pendingChunk = <<>> /\ Trim(buffer) = <<>> /\ timers = 0)
    /\ [](Count("complete") > 0 => endSent)

\* Generation ended with a sentence pending and an unterminated rest in the
\* buffer; both were sent as one chunk, and complete was emitted after it.
C36_Witness ==
    /\ endSent
    /\ Count("complete") = 1
    /\ flushAttempts = 1
    /\ flushedChunks = << [index |-> 1, text |-> <<".", " ", "a">>] >>

(***************************************************************************)
(* SpecSplit: the generation loop of SpecSegmenter, every delta of up to   *)
(* MaxDelta characters over a letter, a space and a terminator, with the   *)
(* debounce timer firing at any point at which it is armed.                *)
(***************************************************************************)
NextSplit ==
    \/ OpenResolves
    \/ LlmStreamOpens
    \/ \E delta \in Deltas : SegPart(delta)
    \/ FlushTimerFires
    \/ GenEnds

SpecSplit == Init /\ [][NextSplit]_vars

\* The characters of s that are not whitespace, in order.
Ink(s) == SelectSeq(s, LAMBDA c : ~IsSpace(c))

\* The texts sent to the adapter, joined in flush order.
RECURSIVE SentText(_)
SentText(chunks) ==
    IF chunks = <<>> THEN <<>> ELSE Head(chunks).text \o SentText(Tail(chunks))

\* C37: in a turn whose generation finishes without error, the texts sent
\* to the adapter, joined in flush order, hold exactly the non-whitespace
\* characters of the full generated response, in the same order, however
\* the response is split into parts and whenever the timer fires.  During
\* generation the same holds of what was sent, what is pending and what
\* the segmenter buffer holds, taken together.
C37_SentTextIsResponse ==
    /\ Ink(SentText(flushedChunks) \o pendingChunk \o buffer) = Ink(fullResponse)
    /\ endSent => Ink(SentText(flushedChunks)) = Ink(fullResponse)

\* A response with whitespace in it was sent as two chunks, the first by
\* the timer, the second at the end of generation.
C37_Witness ==
    /\ endSent
    /\ llmParts = MaxFeeds
    /\ Len(flushedChunks) = 2
    /\ \E i \in 1..Len(fullResponse) : IsSpace(fullResponse[i])
    /\ Len(Ink(fullResponse)) >= 3

\* C38: while the generation of a turn is in progress, between two steps
\* of the pipeline (after each appendToPending, each flush and each firing
\* of the timer) the debounce timer is armed if and only if the pending
\* chunk is not empty.
C38_TimerArmedIffPending ==
    pc \in {"llm_start", "gen"} =>
        /\ timers = 1 <=> pendingChunk # <<>>
        /\ flushTimeout <=> pendingChunk # <<>>

\* During generation a chunk was flushed by a threshold and one by the
\* timer, and a third is pending with the timer armed.
C38_Witness ==
    /\ pc = "gen"
    /\ Len(flushedChunks) = 2
    /\ flushAttempts = 2
    /\ Len(flushedChunks[1].text) = 50
    /\ Len(flushedChunks[2].text) = 49
    /\ pendingChunk # <<>>
    /\ timers = 1

\* The turn has ended: the finally block has run (close() called on the
\* adapter unless it had reported final, done written or dropped).
TurnEnded == pc = "finished"

\* C39: no text is sent to the adapter after end() or close() was called on
\* it, nor after done was emitted: once a turn has ended, on every path
\* (success, error, sink closed by a client disconnect), the debounce timer
\* is cancelled and can no longer fire a flush.
C39_NoTextAfterEnd ==
    /\ [][endSent \/ TurnEnded => flushedChunks' = flushedChunks]_vars
    /\ [](TurnEnded => timers = 0)

\* The same for the turns whose client stayed connected, and for every
\* turn once end() was sent.
Aux_NoTextAfterEndWhenConnected ==
    /\ [][endSent \/ (TurnEnded /\ sink # "cancelled")
            => flushedChunks' = flushedChunks]_vars
    /\ []((endSent \/ (TurnEnded /\ sink # "cancelled")) => timers = 0)

\* The adapter connection of the turn is torn down: the route called
\* close() on it, or the transport has closed it (onClose).
TornDown == closeCalled \/ tts = "closed"

\* C32: on every way a turn can end (normal completion, error, user
\* interruption or client disconnect) the adapter connection opened for
\* the turn is torn down: none remains open after the turn has ended.
C32_ConnectionTornDown == TurnEnded => TornDown

\* The same for the turns that end before the adapter reported final: by
\* an error, or with the connection closed by the transport.
Aux_TornDownUnlessFinal == (TurnEnded /\ ~ttsFinal) => closeCalled

(***************************************************************************)
(* The call status while the talk button is held.                          *)
(***************************************************************************)
\* C40: whenever the user is holding the talk button with recording
\* started (isHolding true) the call status is listening; in particular,
\* when the hold-start is a barge-in that aborts a turn still being
\* streamed, the cleanup of the aborted turn does not overwrite the status
\* with idle while the user is still holding.
C40_HoldingMeansListening == isHolding => status = "listening"

\* The status of a held button is overwritten only by the catch block of
\* the turn the barge-in interrupted, when that turn's handler ends.
Aux_OnlyInterruptedTurnOverwrites ==
    [][isHolding /\ isHolding' /\ status = "listening" /\ status' # "listening"
         => cpc # "done" /\ cpc' = "done" /\ signalAborted /\ status' = "idle"]_vars

(***************************************************************************)
(* User aborts and failures of the client turn.                            *)
(***************************************************************************)
\* C33: a user-initiated abort of a turn (barge-in or end of call), at any
\* point of the turn, is not reported as a failure: once the turn's signal
\* is aborted the handler sets no error message and adds no 'Processing
\* failed' message.
C33_AbortIsNotAFailure == [][signalAborted => failedWith' = failedWith]_vars

\* After an abort the only report left is that of a playback chain a
\* failed decode rejected: the aborted read and the aborted playback end
\* the handler without a report.
Aux_AbortedReadAndPlaybackNotReported ==
    [][signalAborted /\ failedWith' # failedWith
         => failedWith' = "playback" /\ PlaybackRejected]_vars


(***************************************************************************)
(* SpecConversation: handleHoldEnd as a whole, turn after turn, with the   *)
(* messages of the store.  The events of the stream arrive as payloads     *)
(* (the read loop is SpecConsumer's), playback is reduced to whether it    *)
(* started and whether the chain rejected (the player is SpecClient's).    *)
(*   hpc: "fetching" | "reading" | "draining" (await playbackQueue) |      *)
(*        "ended" | "failed" | "recording" (button held)                   *)
(***************************************************************************)
\* store.ts
addMessage(h, message) == Append(h, message)

\* The messages of a conversation, on which an updater is defined.
MessagesOf(h) == {h[i] : i \in 1..Len(h)}

\* updater is a function from the messages of h to their replacements.
updateMessage(h, id, updater) ==
    [i \in 1..Len(h) |-> IF h[i].id = id THEN updater[h[i]] ELSE h[i]]

removeMessage(h, id) == SelectSeq(h, LAMBDA m : m.id # id)

\* The updaters of the catch block.
FailedNotice(m) == [m EXCEPT !.role = "system", !.content = FailedText]

\* An updater that writes the fallback text over whatever was received.
AlwaysFallback(m) == [m EXCEPT !.content = FallbackText]

\* content: message.content || 'There was an issue generating a response...'
KeepOrFallback(m) ==
    [m EXCEPT !.content = IF m.content # <<>> THEN m.content ELSE FallbackText]

\* What the steps of this specification leave alone.
convFrame == <<serverVars, playerVars, routeVars, rpc, body, bodyPos, decoderPending,
               lineBuffer, messages, dispatched, sentLines, deltasSinceOpen,
               completeTexts, lateDelta, cpc, arrived, arrivedAt, chainNext,
               stoppedDuring, startedAfterStop, callStopped>>

TurnTranscripts == {<<"q">>, <<" ", "q">>}

TurnDeltas == {<<"a">>, <<" ">>}

TurnCompleteTexts == {<<>>, <<"b">>}

\* The catch block on an error that is not an AbortError (handleError, the
\* 'Processing failed' notice, the fallback of the expert message, status
\* idle), then the finally block.  h and n are the conversation and the
\* ids created when the error was thrown.
FailTurn(kind, h, n) ==
    LET h1 == IF processingMessageId # 0
              THEN updateMessage(h, processingMessageId,
                                 [m \in MessagesOf(h) |-> FailedNotice(m)])
              ELSE addMessage(h, Message(n + 1, "system", FailedText))
        h2 == IF expertMessageId # 0
              THEN updateMessage(h1, expertMessageId,
                                 [m \in MessagesOf(h1) |-> KeepOrFallback(m)])
              ELSE h1
    IN /\ atFailure' = h
       /\ conversationHistory' = h2
       /\ created' = IF processingMessageId # 0 THEN n ELSE n + 1
       /\ failedWith' = kind
       /\ status' = "idle"
       /\ playbackAbortRef' = DropController(playbackAbortRef)
       /\ hpc' = "failed"
       /\ UNCHANGED <<processingMessageId, transcriptAdded, turns, turnEvents,
                      expertMessageId, fullExpertResponse, clientStreamingError,
                      isHolding, hasStartedSpeaking, convFrame>>

\* fetch rejects, or resolves with a status that is not ok.
FetchFails ==
    /\ hpc = "fetching"
    /\ FailTurn("network", conversationHistory, created)

\* fetch resolves with the NDJSON body.
FetchResolves ==
    /\ hpc = "fetching"
    /\ hpc' = "reading"
    /\ UNCHANGED <<conversationHistory, processingMessageId, transcriptAdded, created,
                   turns, turnEvents, atFailure, expertMessageId, fullExpertResponse,
                   clientStreamingError, failedWith, status, isHolding,
                   hasStartedSpeaking, playbackAbortRef, convFrame>>

\* The metadata event, which the server writes first and once.
MetadataEvent(transcript) ==
    /\ hpc = "reading"
    /\ expertMessageId = 0
    /\ LET cleanedTranscript == Trim(transcript)
           h1 == IF processingMessageId # 0
                 THEN removeMessage(conversationHistory, processingMessageId)
                 ELSE conversationHistory
           h2 == IF cleanedTranscript # <<>>
                 THEN addMessage(h1, Message(created + 1, "user", cleanedTranscript))
                 ELSE addMessage(h1, Message(created + 1, "system", NothingCaughtText))
       IN /\ conversationHistory' =
                addMessage(h2, Message(created + 2, "expert", <<>>))
          /\ transcriptAdded' = (cleanedTranscript # <<>>)
    /\ processingMessageId' = 0
    /\ expertMessageId' = created + 2
    /\ created' = created + 2
    /\ UNCHANGED <<hpc, turns, turnEvents, atFailure, fullExpertResponse,
                   clientStreamingError, failedWith, status, isHolding,
                   hasStartedSpeaking, playbackAbortRef, convFrame>>

\* A text_delta event for the open expert message.
TextDeltaEvent(delta) ==
    /\ hpc = "reading"
    /\ expertMessageId # 0
    /\ turnEvents < MaxEvents
    /\ turnEvents' = turnEvents + 1
    /\ fullExpertResponse' = fullExpertResponse \o delta
    /\ conversationHistory' =
          updateMessage(conversationHistory, expertMessageId,
                        [m \in MessagesOf(conversationHistory) |->
                            [m EXCEPT !.content = fullExpertResponse \o delta]])
    /\ UNCHANGED <<hpc, processingMessageId, transcriptAdded, created, turns, atFailure,
                   expertMessageId, clientStreamingError, failedWith, status, isHolding,
                   hasStartedSpeaking, playbackAbortRef, convFrame>>

\* A complete event: its text replaces the content unless it is empty.
CompleteEvent(text) ==
    /\ hpc = "reading"
    /\ expertMessageId # 0
    /\ turnEvents < MaxEvents
    /\ turnEvents' = turnEvents + 1
    /\ IF text # <<>>
       THEN /\ fullExpertResponse' = text
            /\ conversationHistory' =
                  updateMessage(conversationHistory, expertMessageId,
                                [m \in MessagesOf(conversationHistory) |->
                                    [m EXCEPT !.content = text]])
       ELSE UNCHANGED <<fullExpertResponse, conversationHistory>>
    /\ UNCHANGED <<hpc, processingMessageId, transcriptAdded, created, turns, atFailure,
                   expertMessageId, clientStreamingError, failedWith, status, isHolding,
                   hasStartedSpeaking, playbackAbortRef, convFrame>>

\* An error event: the message is kept for after the playback.
ErrorEvent ==
    /\ hpc = "reading"
    /\ ~clientStreamingError
    /\ clientStreamingError' = TRUE
    /\ UNCHANGED <<hpc, conversationHistory, processingMessageId, transcriptAdded,
                   created, turns, turnEvents, atFailure, expertMessageId,
                   fullExpertResponse, failedWith, status, isHolding,
                   hasStartedSpeaking, playbackAbortRef, convFrame>>

\* The first audio_chunk event: its link of the chain sets the status.
FirstAudioEvent ==
    /\ hpc = "reading"
    /\ ~hasStartedSpeaking
    /\ hasStartedSpeaking' = TRUE
    /\ status' = "speaking"
    /\ UNCHANGED <<hpc, conversationHistory, processingMessageId, transcriptAdded,
                   created, turns, turnEvents, atFailure, expertMessageId,
                   fullExpertResponse, clientStreamingError, failedWith, isHolding,
                   playbackAbortRef, convFrame>>

\* reader.read() rejects: the connection failed.
ReadFails ==
    /\ hpc = "reading"
    /\ FailTurn("network", conversationHistory, created)

\* reader.read() reports the end of the body.
ReadEnds ==
    /\ hpc = "reading"
    /\ hpc' = "draining"
    /\ UNCHANGED <<conversationHistory, processingMessageId, transcriptAdded, created,
                   turns, turnEvents, atFailure, expertMessageId, fullExpertResponse,
                   clientStreamingError, failedWith, status, isHolding,
                   hasStartedSpeaking, playbackAbortRef, convFrame>>

\* await playbackQueue throws: a link of the chain rejected.
PlaybackFails ==
    /\ hpc = "draining"
    /\ hasStartedSpeaking
    /\ FailTurn("playback", conversationHistory, created)

\* await playbackQueue resolves: the notice for a missing transcript, the
\* throw of a recorded error event, or the next status; then finally.
PlaybackSettles ==
    /\ hpc = "draining"
    /\ LET h1 == IF ~transcriptAdded
                 THEN addMessage(conversationHistory,
                                 Message(created + 1, "system", NothingCaughtText))
                 ELSE conversationHistory
           n1 == IF ~transcriptAdded THEN created + 1 ELSE created
       IN IF clientStreamingError
          THEN FailTurn("event", h1, n1)
          ELSE /\ conversationHistory' = h1
               /\ created' = n1
               /\ status' = IF isHolding THEN "listening" ELSE "idle"
               /\ playbackAbortRef' = DropController(playbackAbortRef)
               /\ hpc' = "ended"
               /\ UNCHANGED <<processingMessageId, transcriptAdded, turns, turnEvents,
                              atFailure, expertMessageId, fullExpertResponse,
                              clientStreamingError, failedWith, isHolding,
                              hasStartedSpeaking, convFrame>>

\* handleHoldStart after a turn: the recording notice is added.  (What it
\* does to a playback in progress is in SpecClient.)
HoldStartAfterTurn ==
    /\ hpc \in {"ended", "failed"}
    /\ turns < MaxTurns
    /\ ~isHolding
    /\ isHolding' = TRUE
    /\ status' = "listening"
    /\ playbackAbortRef' = "null"
    /\ conversationHistory' =
          addMessage(conversationHistory,
                     Message(created + 1, "system",
                             IF status = "speaking" THEN InterruptedText
                             ELSE RecordingText))
    /\ created' = created + 1
    /\ hpc' = "recording"
    /\ UNCHANGED <<processingMessageId, transcriptAdded, turns, turnEvents, atFailure,
                   expertMessageId, fullExpertResponse, clientStreamingError,
                   failedWith, hasStartedSpeaking, convFrame>>

\* handleHoldEnd up to the fetch: the locals of the new turn, the
\* processing message, the abort controller.
handleHoldEnd ==
    /\ hpc = "recording"
    /\ isHolding
    /\ isHolding' = FALSE
    /\ status' = "processing"
    /\ processingMessageId' = created + 1
    /\ conversationHistory' =
          addMessage(conversationHistory, Message(created + 1, "system", ProcessingText))
    /\ created' = created + 1
    /\ expertMessageId' = 0
    /\ fullExpertResponse' = <<>>
    /\ clientStreamingError' = FALSE
    /\ hasStartedSpeaking' = FALSE
    /\ transcriptAdded' = FALSE
    /\ failedWith' = "none"
    /\ atFailure' = <<>>
    /\ turnEvents' = 0
    /\ turns' = turns + 1
    /\ playbackAbortRef' = "turn"
    /\ hpc' = "fetching"
    /\ UNCHANGED convFrame

NextConversation ==
    \/ FetchFails
    \/ FetchResolves
    \/ \E transcript \in TurnTranscripts : MetadataEvent(transcript)
    \/ \E delta \in TurnDeltas : TextDeltaEvent(delta)
    \/ \E text \in TurnCompleteTexts : CompleteEvent(text)
    \/ ErrorEvent
    \/ FirstAudioEvent
    \/ ReadFails
    \/ ReadEnds
    \/ PlaybackFails
    \/ PlaybackSettles
    \/ HoldStartAfterTurn
    \/ handleHoldEnd

SpecConversation == Init /\ [][NextConversation]_vars

\* The positions of the messages of h with the given id.
At(h, id) == {i \in 1..Len(h) : h[i].id = id}

\* C31: when a turn fails on the client (error event, network failure or
\* playback failure) what was received in the turn is preserved: the user
\* message with the transcript stays, the expert message keeps exactly the
\* partial text accumulated so far (the fallback text is written only into
\* an expert message that is still empty), and no message of the
\* conversation is removed.
C31_FailureKeepsContent ==
    /\ [](hpc = "failed" =>
            /\ Len(conversationHistory) >= Len(atFailure)
            /\ \A i \in 1..Len(atFailure) :
                  LET before == atFailure[i]
                      after == conversationHistory[i]
                  IN /\ after.id = before.id
                     /\ before.role \in {"user", "expert"} => after.role = before.role
                     /\ before.role = "user" => after.content = before.content
                     /\ before.role = "expert" =>
                           after.content =
                              IF before.content = <<>> /\ before.id = expertMessageId
                              THEN FallbackText ELSE before.content
            /\ expertMessageId # 0 =>
                  /\ At(atFailure, expertMessageId) # {}
                  /\ \A i \in At(atFailure, expertMessageId) :
                        atFailure[i].content = fullExpertResponse
            /\ transcriptAdded =>
                  \E i \in 1..Len(conversationHistory) :
                      /\ conversationHistory[i].id = expertMessageId - 1
                      /\ conversationHistory[i].role = "user"
                      /\ conversationHistory[i].content = <<"q">>)
    /\ [][\A i \in 1..Len(conversationHistory) :
             conversationHistory[i].role \in {"user", "expert"} =>
                \E j \in 1..Len(conversationHistory') :
                    /\ conversationHistory'[j].id = conversationHistory[i].id
                    /\ conversationHistory'[j].role = conversationHistory[i].role]_vars

\* The second turn failed on a lost connection after a partial text was
\* received; the first turn had failed on an error event before any text.
C31_Witness ==
    /\ hpc = "failed"
    /\ turns = 2
    /\ failedWith = "network"
    /\ fullExpertResponse = <<"a">>
    /\ \E i \in 1..Len(conversationHistory) :
          /\ conversationHistory[i].role = "expert"
          /\ conversationHistory[i].content = FallbackText
    /\ \E i \in 1..Len(conversationHistory) :
          /\ conversationHistory[i].id = expertMessageId
          /\ conversationHistory[i].content = <<"a">>
====
